---- MODULE Spec2Model ----
(***************************************************************************)
(* A model of package xsync: Map[K,T] (map.go) and Set[K] (set.go), two    *)
(* containers guarded by a sync.RWMutex, each with a version counter.      *)
(*                                                                         *)
(* A goroutine is a process p.  Every method is two steps: the step that   *)
(* acquires the lock (m.mx.Lock / m.mx.RLock), and the step that runs the  *)
(* method body and releases the lock (the deferred Unlock / RUnlock).      *)
(* Set has a step between them: its test of m.vals against nil.            *)
(* Keys are the integers 1..NumKeys, values the integers 0..MaxVal, with 0 *)
(* the zero value of the value type.                                       *)
(***************************************************************************)
EXTENDS Integers, Sequences, FiniteSets, TLC

NumKeys == 2
MaxVal == 1
MaxOps == 3
NumProcs == 2
NumSetters == 3
NumDrainers == 2
MaxMembers == 2
MaxVer == 3

Keys == 1..NumKeys
Zero == 0
Vals == Zero..MaxVal
NoKey == 0
NoProc == 0
Procs == 1..NumProcs

VARIABLES
    mx,     \* Map.mx: [w |-> the process holding the write lock or NoProc,
            \*          r |-> the set of processes holding a read lock]
    ver,    \* Map.ver
    vals,   \* Map.vals: Nil, or <<m>> with m a function from a set of keys
    set,    \* a Set: [mx |-> Set.mx, ver |-> Set.ver, vals |-> Set.vals], with
            \* vals Nil, or <<S>> with S the set of member keys
    pc,     \* pc[p]: "idle", or the method whose critical section p is in
    call,   \* call[p]: the arguments and locals of p's current call
    ret,    \* what the step just taken returned to its caller:
            \* [proc |-> the caller, res |-> the results], NoRet otherwise
    aux     \* history kept for the properties; its fields are named by each
            \* specification's initial condition

mapVars == <<mx, ver, vals>>
procVars == <<pc, call, ret>>
vars == <<mx, ver, vals, set, pc, call, ret, aux>>

-----------------------------------------------------------------------------
(* Go maps.  A nil map reads as an empty map; writing needs an allocated one *)

Nil == <<>>
EmptyMap == <<>>
Alloc(m) == <<m>>
Entries(v) == IF v = Nil THEN EmptyMap ELSE v[1]
Put(m, k, x) == [j \in (DOMAIN m) \cup {k} |-> IF j = k THEN x ELSE m[j]]
Remove(m, k) == [j \in (DOMAIN m) \ {k} |-> m[j]]

\* All maps over Keys and Vals
AllMaps == UNION {[D -> Vals] : D \in SUBSET Keys}

-----------------------------------------------------------------------------
(* sync.RWMutex *)

Unlocked == [w |-> NoProc, r |-> {}]
\* A Lock that does not wait for the holders of the lock
CanLock_NoWait == TRUE

\* sync.RWMutex.Lock returns when no goroutine holds the lock, RLock when
\* no goroutine holds it exclusively
CanLock == mx.w = NoProc /\ mx.r = {}
CanRLock == mx.w = NoProc
Lock(p) == [mx EXCEPT !.w = p]
Unlock(p) == [mx EXCEPT !.w = NoProc]
RLock(p) == [mx EXCEPT !.r = @ \cup {p}]
RUnlock(p) == [mx EXCEPT !.r = @ \ {p}]

\* The zero value of Set, set.go:14-18
ZeroSet == [mx |-> Unlocked, ver |-> 0, vals |-> Nil]

NoCall == [key |-> NoKey, val |-> Zero, isnil |-> FALSE, outer |-> "none"]
NoRet == [proc |-> NoProc, res |-> [op |-> "none"]]

Enter(p, op, k, v) ==
    /\ pc[p] = "idle"
    /\ pc' = [pc EXCEPT ![p] = op]
    /\ call' = [call EXCEPT ![p] = [key |-> k, val |-> v, isnil |-> FALSE, outer |-> "none"]]
    /\ ret' = NoRet

Leave(p, r) ==
    /\ pc' = [pc EXCEPT ![p] = "idle"]
    /\ call' = [call EXCEPT ![p] = NoCall]
    /\ ret' = [proc |-> p, res |-> r]

-----------------------------------------------------------------------------
(* Map: the method bodies as functions of the fields they read *)

\* Set that keeps the value of a key that is already present
SetVals_KeepsOld(v, isnil, k, x) ==
    IF ~isnil /\ k \in DOMAIN Entries(v) THEN v
    ELSE Alloc(Put(IF isnil THEN EmptyMap ELSE Entries(v), k, x))

\* Set, map.go:39-42: storage is allocated when the test of line 39 found
\* m.vals nil, and the entry is written
SetVals(v, isnil, k, x) == Alloc(Put(IF isnil THEN EmptyMap ELSE Entries(v), k, x))

\* Set that forgets to count the mutation
SetVer_Forgotten(n) == n

\* Set, map.go:43
SetVer(n) == n + 1

\* Delete that leaves the key in place
DeleteVals_KeepsKey(v, k) == v

\* A Delete that counts only when the map holds an entry
DeleteVer_NonEmpty(v, n) == IF v # Nil /\ v[1] # EmptyMap THEN n + 1 ELSE n

\* Delete, map.go:64-67
DeleteVals(v, k) == IF v # Nil THEN Alloc(Remove(v[1], k)) ELSE v
DeleteVer(v, n) == IF v # Nil THEN n + 1 ELSE n

\* Get, map.go:74-77
GetVal(v, k) == IF v # Nil /\ k \in DOMAIN v[1] THEN v[1][k] ELSE Zero

\* Exists, map.go:98-102
ExistsKey(v, k) == IF v = Nil THEN FALSE ELSE k \in DOMAIN v[1]

\* Len, map.go:108
LenVals(v) == Cardinality(DOMAIN Entries(v))

-----------------------------------------------------------------------------
(* Map: the methods *)

Map_Set_Lock(p, k, x) ==
    /\ CanLock
    /\ Enter(p, "Set", k, x)
    /\ mx' = Lock(p)
    /\ UNCHANGED <<ver, vals>>
    /\ UNCHANGED set

\* What the caller of Set gets: Set returns nothing; GetOrSet, when it is
\* the caller (map.go:89-91), returns what it passed to Set
SetResult(c) ==
    IF c.outer = "GetOrSet"
      THEN [op |-> "GetOrSet", key |-> c.key, val |-> c.val, called |-> TRUE]
      ELSE [op |-> "Set"]

\* map.go:39: the test m.vals == nil
Map_Set_IsNil(p) ==
    /\ pc[p] = "Set"
    /\ pc' = [pc EXCEPT ![p] = "Set_write"]
    /\ call' = [call EXCEPT ![p].isnil = (vals = Nil)]
    /\ ret' = NoRet
    /\ UNCHANGED <<mx, ver, vals>>
    /\ UNCHANGED set

\* map.go:40-44
Map_Set(p) ==
    /\ pc[p] = "Set_write"
    /\ vals' = SetVals(vals, call[p].isnil, call[p].key, call[p].val)
    /\ ver' = SetVer(ver)
    /\ mx' = Unlock(p)
    /\ Leave(p, SetResult(call[p]))
    /\ UNCHANGED set

Map_Delete_Lock(p, k) ==
    /\ CanLock
    /\ Enter(p, "Delete", k, Zero)
    /\ mx' = Lock(p)
    /\ UNCHANGED <<ver, vals>>
    /\ UNCHANGED set

Map_Delete(p) ==
    /\ pc[p] = "Delete"
    /\ vals' = DeleteVals(vals, call[p].key)
    /\ ver' = DeleteVer(vals, ver)
    /\ mx' = Unlock(p)
    /\ Leave(p, [op |-> "Delete"])
    /\ UNCHANGED set

Map_Get_RLock(p, k) ==
    /\ CanRLock
    /\ Enter(p, "Get", k, Zero)
    /\ mx' = RLock(p)
    /\ UNCHANGED <<ver, vals>>
    /\ UNCHANGED set

Map_Get(p) ==
    /\ pc[p] = "Get"
    /\ mx' = RUnlock(p)
    /\ Leave(p, [op |-> "Get", key |-> call[p].key, val |-> GetVal(vals, call[p].key)])
    /\ UNCHANGED <<ver, vals>>
    /\ UNCHANGED set

Map_Exists_RLock(p, k) ==
    /\ CanRLock
    /\ Enter(p, "Exists", k, Zero)
    /\ mx' = RLock(p)
    /\ UNCHANGED <<ver, vals>>
    /\ UNCHANGED set

Map_Exists(p) ==
    /\ pc[p] = "Exists"
    /\ mx' = RUnlock(p)
    /\ Leave(p, [op |-> "Exists", key |-> call[p].key, ok |-> ExistsKey(vals, call[p].key)])
    /\ UNCHANGED <<ver, vals>>
    /\ UNCHANGED set

Map_Len_RLock(p) ==
    /\ CanRLock
    /\ Enter(p, "Len", NoKey, Zero)
    /\ mx' = RLock(p)
    /\ UNCHANGED <<ver, vals>>
    /\ UNCHANGED set

Map_Len(p) ==
    /\ pc[p] = "Len"
    /\ mx' = RUnlock(p)
    /\ Leave(p, [op |-> "Len", n |-> LenVals(vals)])
    /\ UNCHANGED <<ver, vals>>
    /\ UNCHANGED set

Map_GetOrSet_RLock(p, k) ==
    /\ CanRLock
    /\ Enter(p, "GetOrSet", k, Zero)
    /\ mx' = RLock(p)
    /\ UNCHANGED <<ver, vals>>
    /\ UNCHANGED set

\* GetOrSet that never finds the key
GetOrSetLookup_Miss(v, k) == [res |-> Zero, ok |-> FALSE]

\* A lookup that takes a key stored with the zero value for an absent key
GetOrSetLookup_ZeroIsAbsent(v, k) ==
    IF v # Nil /\ k \in DOMAIN v[1] /\ v[1][k] # Zero
      THEN [res |-> v[1][k], ok |-> TRUE]
      ELSE [res |-> Zero, ok |-> FALSE]

\* GetOrSet, map.go:81-85
GetOrSetLookup(v, k) ==
    IF v # Nil /\ k \in DOMAIN v[1]
      THEN [res |-> v[1][k], ok |-> TRUE]
      ELSE [res |-> Zero, ok |-> FALSE]

\* map.go:83-88: the lookup under the read lock, which is then released; a
\* hit returns the value, a miss calls fn
Map_GetOrSet_Check(p) ==
    /\ pc[p] = "GetOrSet"
    /\ mx' = RUnlock(p)
    /\ IF GetOrSetLookup(vals, call[p].key).ok
         THEN Leave(p, [op |-> "GetOrSet", key |-> call[p].key,
                        val |-> GetOrSetLookup(vals, call[p].key).res,
                        called |-> FALSE])
         ELSE /\ pc' = [pc EXCEPT ![p] = "GetOrSet_fn"]
              /\ ret' = NoRet
              /\ UNCHANGED call
    /\ UNCHANGED <<ver, vals>>
    /\ UNCHANGED set

\* map.go:88: fn, which has been running since the lookup, returns x
Map_GetOrSet_FnReturn(p, x) ==
    /\ pc[p] = "GetOrSet_fn"
    /\ pc' = [pc EXCEPT ![p] = "GetOrSet_set"]
    /\ call' = [call EXCEPT ![p].val = x]
    /\ ret' = NoRet
    /\ UNCHANGED <<mx, ver, vals>>
    /\ UNCHANGED set

\* map.go:89 and 37: m.Set(key, res) takes the lock
Map_GetOrSet_Set_Lock(p) ==
    /\ pc[p] = "GetOrSet_set"
    /\ CanLock
    /\ pc' = [pc EXCEPT ![p] = "Set"]
    /\ call' = [call EXCEPT ![p].outer = "GetOrSet"]
    /\ ret' = NoRet
    /\ mx' = Lock(p)
    /\ UNCHANGED <<ver, vals>>
    /\ UNCHANGED set

Map_Clear_Lock(p) ==
    /\ CanLock
    /\ Enter(p, "Clear", NoKey, Zero)
    /\ mx' = Lock(p)
    /\ UNCHANGED <<ver, vals>>
    /\ UNCHANGED set

\* map.go:29-34
Map_Clear(p) ==
    /\ pc[p] = "Clear"
    /\ vals' = Nil
    /\ ver' = ver + 1
    /\ mx' = Unlock(p)
    /\ Leave(p, [op |-> "Clear"])
    /\ UNCHANGED set

\* map.go:46-58 is a comment: *Map has no method Increment, although
\* map_test.go:33-36 calls it.  A request for Increment(k, d) therefore
\* reaches no code of the store: it takes no lock, and reads and writes
\* nothing.
Map_Increment(p, k, d) ==
    /\ pc[p] = "idle"
    /\ ret' = [proc |-> p, res |-> [op |-> "Increment", key |-> k, val |-> d]]
    /\ UNCHANGED <<mx, ver, vals, pc, call>>
    /\ UNCHANGED set

Map_Version_RLock(p) ==
    /\ CanRLock
    /\ Enter(p, "Version", NoKey, Zero)
    /\ mx' = RLock(p)
    /\ UNCHANGED <<ver, vals>>
    /\ UNCHANGED set

\* map.go:111-115
Map_Version(p) ==
    /\ pc[p] = "Version"
    /\ mx' = RUnlock(p)
    /\ Leave(p, [op |-> "Version", ver |-> ver])
    /\ UNCHANGED <<ver, vals>>
    /\ UNCHANGED set

\* KeyValues, map.go:121-127: a new map holding every entry
KeyValuesOf(v) == IF v # Nil THEN [k \in DOMAIN v[1] |-> v[1][k]] ELSE EmptyMap

Map_KeyValues_RLock(p) ==
    /\ CanRLock
    /\ Enter(p, "KeyValues", NoKey, Zero)
    /\ mx' = RLock(p)
    /\ UNCHANGED <<ver, vals>>
    /\ UNCHANGED set

Map_KeyValues(p) ==
    /\ pc[p] = "KeyValues"
    /\ mx' = RUnlock(p)
    /\ Leave(p, [op |-> "KeyValues", res |-> KeyValuesOf(vals)])
    /\ UNCHANGED <<ver, vals>>
    /\ UNCHANGED set

Map_Pop_Lock(p) ==
    /\ CanLock
    /\ Enter(p, "Pop", NoKey, Zero)
    /\ mx' = Lock(p)
    /\ UNCHANGED <<ver, vals>>
    /\ UNCHANGED set

\* A Pop that returns the entry and leaves it in the map
PopVals_Keeps(v, k) == v

\* Pop, map.go:162: delete(m.vals, key)
PopVals(v, k) == Alloc(Remove(v[1], k))

\* map.go:156-168: the first entry of the range, which may be any entry
Map_Pop(p) ==
    /\ pc[p] = "Pop"
    /\ IF vals # Nil /\ DOMAIN vals[1] # {}
         THEN \E k \in DOMAIN vals[1] :
                /\ vals' = PopVals(vals, k)
                /\ ver' = ver + 1
                /\ Leave(p, [op |-> "Pop", key |-> k, val |-> vals[1][k]])
         ELSE /\ UNCHANGED <<ver, vals>>
              /\ Leave(p, [op |-> "Pop", key |-> NoKey, val |-> Zero])
    /\ mx' = Unlock(p)
    /\ UNCHANGED set

Map_PopAll_Lock(p) ==
    /\ CanLock
    /\ Enter(p, "PopAll", NoKey, Zero)
    /\ mx' = Lock(p)
    /\ UNCHANGED <<ver, vals>>
    /\ UNCHANGED set

\* PopAll that hands out the map and keeps it
PopAllVals_Keeps(v) == v

\* PopAll, map.go:174: the store's reference to its map is dropped
PopAllVals(v) == Nil

\* map.go:170-177
Map_PopAll(p) ==
    /\ pc[p] = "PopAll"
    /\ vals' = PopAllVals(vals)
    /\ ver' = ver + 1
    /\ mx' = Unlock(p)
    /\ Leave(p, [op |-> "PopAll", values |-> vals])
    /\ UNCHANGED set

-----------------------------------------------------------------------------
(***************************************************************************)
(* encoding/json, as Map and Set use it with integer keys and values.      *)
(* A JSON text is modelled by its kind: "invalid" (not JSON), "null",      *)
(* "other" (a JSON value of a kind the target cannot hold), "object" with  *)
(* its members in order, or "array" with its elements in order.  A member  *)
(* is [key |-> the text of its name, val |-> a token]; a token is          *)
(* [text |-> its text, quoted |-> whether it is a JSON string].  Integers  *)
(* are written as decimal text.                                            *)
(***************************************************************************)

IntText == <<"0", "1", "2", "3", "4", "5", "6", "7", "8", "9">>

\* strconv formatting of the integers 0..9
FormatInt(n) == IntText[n + 1]

\* strconv.ParseInt: <<n>>, or <<>> when s is not the text of an integer
ParseInt(s) ==
    IF \E n \in 0..9 : IntText[n + 1] = s
      THEN <<CHOOSE n \in 0..9 : IntText[n + 1] = s>>
      ELSE <<>>

NumToken(n) == [text |-> FormatInt(n), quoted |-> FALSE]
StrToken(s) == [text |-> s, quoted |-> TRUE]

\* The keys of m in increasing order.  json.Marshal sorts the members by the
\* text of the key, which for the one-digit keys used here is this order.
RECURSIVE SortedKeys(_)
SortedKeys(D) ==
    IF D = {} THEN <<>>
    ELSE LET k == CHOOSE k \in D : \A j \in D : k <= j
         IN <<k>> \o SortedKeys(D \ {k})

\* json.Marshal of a non-nil map[K]T
JSONMarshalMap(m) ==
    [kind |-> "object",
     members |-> [i \in 1..Cardinality(DOMAIN m) |->
                    [key |-> FormatInt(SortedKeys(DOMAIN m)[i]),
                     val |-> NumToken(m[SortedKeys(DOMAIN m)[i]])]]]

\* Decoding one member into the map m (encoding/json's object()): a value
\* that is not a number leaves the element at its zero value and records an
\* error; a name that is not an integer records an error and stores nothing.
JSONStoreMember(m, mem) ==
    LET elem == IF mem.val.quoted \/ ParseInt(mem.val.text) = <<>>
                  THEN Zero ELSE ParseInt(mem.val.text)[1]
        key == ParseInt(mem.key)
    IN IF key = <<>> THEN m ELSE Put(m, key[1], elem)

JSONMemberOk(mem) ==
    /\ ~mem.val.quoted /\ ParseInt(mem.val.text) # <<>>
    /\ ParseInt(mem.key) # <<>>

RECURSIVE JSONStoreMembers(_, _)
JSONStoreMembers(m, mems) ==
    IF mems = <<>> THEN m
    ELSE JSONStoreMembers(JSONStoreMember(m, Head(mems)), Tail(mems))

\* json.Decoder.Decode(&v) for v a map[K]T: [vals |-> v afterwards,
\* err |-> whether an error is returned].  null sets v to nil; an object is
\* decoded into v itself when v is not nil, and into a new map otherwise.
JSONDecodeMap(v, data) ==
    CASE data.kind = "null" -> [vals |-> Nil, err |-> FALSE]
      [] data.kind = "object" ->
           [vals |-> Alloc(JSONStoreMembers(Entries(v), data.members)),
            err |-> \E i \in DOMAIN data.members : ~JSONMemberOk(data.members[i])]
      [] OTHER -> [vals |-> v, err |-> TRUE]

\* json.Unmarshal(data, &vv) for vv a nil []K: [vv |-> Nil or <<the
\* elements>>, err |-> whether an error is returned]
JSONDecodeSlice(data) ==
    CASE data.kind = "null" -> [vv |-> Nil, err |-> FALSE]
      [] data.kind = "array" ->
           [vv |-> Alloc([i \in DOMAIN data.elems |->
                            IF data.elems[i].quoted \/ ParseInt(data.elems[i].text) = <<>>
                              THEN NoKey ELSE ParseInt(data.elems[i].text)[1]]),
            err |-> \E i \in DOMAIN data.elems :
                       data.elems[i].quoted \/ ParseInt(data.elems[i].text) = <<>>]
      [] OTHER -> [vv |-> Nil, err |-> TRUE]

(***************************************************************************)
(* encoding/gob.  A gob stream is modelled as "invalid", or as the typed   *)
(* value it carries: "map" with its <<key, value>> pairs in order, or      *)
(* "slice" with its elements in order.                                     *)
(***************************************************************************)

RECURSIVE GobStorePairs(_, _)
GobStorePairs(m, pairs) ==
    IF pairs = <<>> THEN m
    ELSE GobStorePairs(Put(m, Head(pairs)[1], Head(pairs)[2]), Tail(pairs))

\* gob.Decoder.Decode(&v) for v a map[K]T: the pairs are stored into v
\* itself when v is not nil, and into a new map otherwise
GobDecodeMap(v, data) ==
    IF data.kind = "map"
      THEN [vals |-> Alloc(GobStorePairs(Entries(v), data.pairs)), err |-> FALSE]
      ELSE [vals |-> v, err |-> TRUE]

\* gob.Decoder.Decode(&vv) for vv a nil []K
GobDecodeSlice(data) ==
    IF data.kind = "slice"
      THEN [vv |-> Alloc(data.elems), err |-> FALSE]
      ELSE [vv |-> Nil, err |-> TRUE]

-----------------------------------------------------------------------------
(* Map: encoding and decoding *)

\* A MarshalJSON that leaves out the entries whose value is the zero value
MarshalJSONOf_OmitZero(v) ==
    JSONMarshalMap([k \in {j \in DOMAIN Entries(v) : Entries(v)[j] # Zero} |-> Entries(v)[k]])

\* MarshalJSON, map.go:208
MarshalJSONOf(v) == JSONMarshalMap(KeyValuesOf(v))

\* UnmarshalJSON, map.go:215-217, on a Map with fields v and n
UnmarshalJSONOf(v, n, data) ==
    [vals |-> JSONDecodeMap(v, data).vals, ver |-> n + 1,
     err |-> JSONDecodeMap(v, data).err]

\* BinaryDecode, map.go:241-243
BinaryDecodeOf(v, n, data) ==
    [vals |-> GobDecodeMap(v, data).vals, ver |-> n + 1,
     err |-> GobDecodeMap(v, data).err]

Map_MarshalJSON_RLock(p) ==
    /\ CanRLock
    /\ Enter(p, "MarshalJSON", NoKey, Zero)
    /\ mx' = RLock(p)
    /\ UNCHANGED <<ver, vals>>
    /\ UNCHANGED set

\* map.go:207-209: KeyValues copies the entries under the read lock, and
\* the copy is encoded
Map_MarshalJSON(p) ==
    /\ pc[p] = "MarshalJSON"
    /\ mx' = RUnlock(p)
    /\ Leave(p, [op |-> "MarshalJSON", data |-> MarshalJSONOf(vals), err |-> FALSE])
    /\ UNCHANGED <<ver, vals>>
    /\ UNCHANGED set

Map_UnmarshalJSON_Lock(p) ==
    /\ CanLock
    /\ Enter(p, "UnmarshalJSON", NoKey, Zero)
    /\ mx' = Lock(p)
    /\ UNCHANGED <<ver, vals>>
    /\ UNCHANGED set

\* map.go:211-218, called with data
Map_UnmarshalJSON(p, data) ==
    /\ pc[p] = "UnmarshalJSON"
    /\ vals' = UnmarshalJSONOf(vals, ver, data).vals
    /\ ver' = UnmarshalJSONOf(vals, ver, data).ver
    /\ mx' = Unlock(p)
    /\ Leave(p, [op |-> "UnmarshalJSON", err |-> UnmarshalJSONOf(vals, ver, data).err])
    /\ UNCHANGED set

Map_BinaryDecode_Lock(p) ==
    /\ CanLock
    /\ Enter(p, "BinaryDecode", NoKey, Zero)
    /\ mx' = Lock(p)
    /\ UNCHANGED <<ver, vals>>
    /\ UNCHANGED set

\* map.go:237-244, called with a reader of data
Map_BinaryDecode(p, data) ==
    /\ pc[p] = "BinaryDecode"
    /\ vals' = BinaryDecodeOf(vals, ver, data).vals
    /\ ver' = BinaryDecodeOf(vals, ver, data).ver
    /\ mx' = Unlock(p)
    /\ Leave(p, [op |-> "BinaryDecode", err |-> BinaryDecodeOf(vals, ver, data).err])
    /\ UNCHANGED set

-----------------------------------------------------------------------------
(* Set: a map[K]struct{} behind its own sync.RWMutex *)

Unit == "struct{}{}"

\* The sequences that list the elements of S once each, in any order
SeqsOf(S) == {q \in [1..Cardinality(S) -> S] : \A i, j \in DOMAIN q : i # j => q[i] # q[j]}

\* mapKeys, map.go:259-268: nil for a nil map, else its keys in the order of
\* the range, which may be any order
mapKeys(mm) == IF mm = Nil THEN {Nil} ELSE {Alloc(q) : q \in SeqsOf(DOMAIN mm[1])}

SetCanLock == set.mx.w = NoProc /\ set.mx.r = {}
SetCanRLock == set.mx.w = NoProc

Set_Set_Lock(p, k) ==
    /\ SetCanLock
    /\ Enter(p, "Set.Set", k, Zero)
    /\ set' = [set EXCEPT !.mx.w = p]
    /\ UNCHANGED mapVars

\* set.go:38: the test m.vals == nil
Set_Set_IsNil(p) ==
    /\ pc[p] = "Set.Set"
    /\ pc' = [pc EXCEPT ![p] = "Set.Set_write"]
    /\ call' = [call EXCEPT ![p].isnil = (set.vals = Nil)]
    /\ ret' = NoRet
    /\ UNCHANGED <<mapVars, set>>

\* set.go:39-43
Set_Set(p) ==
    /\ pc[p] = "Set.Set_write"
    /\ set' = [mx |-> [set.mx EXCEPT !.w = NoProc],
               ver |-> set.ver + 1,
               vals |-> SetVals(set.vals, call[p].isnil, call[p].key, Unit)]
    /\ Leave(p, [op |-> "Set.Set"])
    /\ UNCHANGED mapVars

Set_PopAll_Lock(p) ==
    /\ SetCanLock
    /\ Enter(p, "Set.PopAll", NoKey, Zero)
    /\ set' = [set EXCEPT !.mx.w = p]
    /\ UNCHANGED mapVars

\* set.go:109-115
Set_PopAll(p) ==
    /\ pc[p] = "Set.PopAll"
    /\ \E values \in mapKeys(set.vals) :
          Leave(p, [op |-> "Set.PopAll", values |-> values])
    /\ set' = [mx |-> [set.mx EXCEPT !.w = NoProc],
               ver |-> set.ver + 1,
               vals |-> Nil]
    /\ UNCHANGED mapVars

\* sliceToMap, set.go:165-171
sliceToMap(vv) ==
    Alloc([k \in {Entries(vv)[i] : i \in DOMAIN Entries(vv)} |-> Unit])

\* A failed decode that counts as a mutation, as the decoders of Map do
SetFailedDecode_Counts(s) == [s EXCEPT !.ver = @ + 1]

\* set.go:141-143 and 156-158: what a decode that fails leaves of the Set s.
\* The return comes before the lock and before any use of m.vals or m.ver.
SetFailedDecode(s) == s

\* set.go:139-143: the text is decoded before the lock is taken; an error
\* returns at once
Set_UnmarshalJSON_Fail(p, data) ==
    /\ pc[p] = "idle"
    /\ JSONDecodeSlice(data).err
    /\ ret' = [proc |-> p, res |-> [op |-> "Set.UnmarshalJSON", err |-> TRUE]]
    /\ set' = SetFailedDecode(set)
    /\ UNCHANGED <<mapVars, pc, call>>

\* set.go:140-144
Set_UnmarshalJSON_Lock(p, data) ==
    /\ ~JSONDecodeSlice(data).err
    /\ SetCanLock
    /\ Enter(p, "Set.UnmarshalJSON", NoKey, JSONDecodeSlice(data).vv)
    /\ set' = [set EXCEPT !.mx.w = p]
    /\ UNCHANGED mapVars

\* set.go:145-147
Set_UnmarshalJSON(p) ==
    /\ pc[p] = "Set.UnmarshalJSON"
    /\ set' = [mx |-> [set.mx EXCEPT !.w = NoProc],
               ver |-> set.ver + 1,
               vals |-> sliceToMap(call[p].val)]
    /\ Leave(p, [op |-> "Set.UnmarshalJSON", err |-> FALSE])
    /\ UNCHANGED mapVars

\* set.go:154-158
Set_BinaryDecode_Fail(p, data) ==
    /\ pc[p] = "idle"
    /\ GobDecodeSlice(data).err
    /\ ret' = [proc |-> p, res |-> [op |-> "Set.BinaryDecode", err |-> TRUE]]
    /\ set' = SetFailedDecode(set)
    /\ UNCHANGED <<mapVars, pc, call>>

\* set.go:155-159
Set_BinaryDecode_Lock(p, data) ==
    /\ ~GobDecodeSlice(data).err
    /\ SetCanLock
    /\ Enter(p, "Set.BinaryDecode", NoKey, GobDecodeSlice(data).vv)
    /\ set' = [set EXCEPT !.mx.w = p]
    /\ UNCHANGED mapVars

\* set.go:160-162
Set_BinaryDecode(p) ==
    /\ pc[p] = "Set.BinaryDecode"
    /\ set' = [mx |-> [set.mx EXCEPT !.w = NoProc],
               ver |-> set.ver + 1,
               vals |-> sliceToMap(call[p].val)]
    /\ Leave(p, [op |-> "Set.BinaryDecode", err |-> FALSE])
    /\ UNCHANGED mapVars

-----------------------------------------------------------------------------
(***************************************************************************)
(* SpecSeq: one goroutine calls Set, Delete, Get, Exists and Len on the    *)
(* zero-value Map, at most MaxOps mutations.  aux.log records each         *)
(* mutation as it takes effect, oldest first.                              *)
(***************************************************************************)

SeqProcs == {1}
SeqProc == CHOOSE p \in SeqProcs : TRUE

InitSeq ==
    /\ mx = Unlocked
    /\ ver = 0
    /\ vals = Nil
    /\ set = ZeroSet
    /\ pc = [p \in SeqProcs |-> "idle"]
    /\ call = [p \in SeqProcs |-> NoCall]
    /\ ret = NoRet
    /\ aux = [log |-> <<>>]

Logged(op, k, x) == aux' = [log |-> Append(aux.log, [op |-> op, key |-> k, val |-> x])]

SeqSetLock == \E k \in Keys, x \in Vals :
    Len(aux.log) < MaxOps /\ Map_Set_Lock(SeqProc, k, x) /\ UNCHANGED aux
SeqSetIsNil == Map_Set_IsNil(SeqProc) /\ UNCHANGED aux
SeqSet ==
    Map_Set(SeqProc) /\ Logged("Set", call[SeqProc].key, call[SeqProc].val)
SeqDeleteLock == \E k \in Keys :
    Len(aux.log) < MaxOps /\ Map_Delete_Lock(SeqProc, k) /\ UNCHANGED aux
SeqDelete ==
    Map_Delete(SeqProc) /\ Logged("Delete", call[SeqProc].key, Zero)
SeqGetRLock == \E k \in Keys : Map_Get_RLock(SeqProc, k) /\ UNCHANGED aux
SeqGet == Map_Get(SeqProc) /\ UNCHANGED aux
SeqExistsRLock == \E k \in Keys : Map_Exists_RLock(SeqProc, k) /\ UNCHANGED aux
SeqExists == Map_Exists(SeqProc) /\ UNCHANGED aux
SeqLenRLock == Map_Len_RLock(SeqProc) /\ UNCHANGED aux
SeqLen == Map_Len(SeqProc) /\ UNCHANGED aux

NextSeq ==
    \/ SeqSetLock \/ SeqSetIsNil \/ SeqSet
    \/ SeqDeleteLock \/ SeqDelete
    \/ SeqGetRLock \/ SeqGet
    \/ SeqExistsRLock \/ SeqExists
    \/ SeqLenRLock \/ SeqLen

SpecSeq == InitSeq /\ [][NextSeq]_vars

(* The reference mapping of a history: what the last mutation of k did *)
LastOp(h, k) ==
    LET I == {i \in 1..Len(h) : h[i].key = k}
    IN IF I = {} THEN 0 ELSE CHOOSE i \in I : \A j \in I : j <= i
RefPresent(h, k) == LastOp(h, k) # 0 /\ h[LastOp(h, k)].op = "Set"
RefKeys(h) == {k \in Keys : RefPresent(h, k)}
RefGet(h, k) == IF RefPresent(h, k) THEN h[LastOp(h, k)].val ELSE Zero

\* C1: after any sequence of Set and Delete on the zero-value Map, whatever
\* Len, Exists and Get return agrees with the reference mapping of the
\* history: Len is the number of keys present, Exists(k) holds iff the last
\* mutation of k was a Set, and Get(k) is the value of that Set, or the zero
\* value when k is absent (also while storage is nil).
C1_AgreesWithReference ==
    /\ ret.res.op = "Len" => ret.res.n = Cardinality(RefKeys(aux.log))
    /\ ret.res.op = "Exists" =>
          ret.res.ok = RefPresent(aux.log, ret.res.key)
    /\ ret.res.op = "Get" =>
          ret.res.val = RefGet(aux.log, ret.res.key)

\* Get of a key that was set to a non-zero value and then deleted, while
\* another key is still present, has returned the zero value.
C1_Witness ==
    /\ ret.res.op = "Get"
    /\ ret.res.val = Zero
    /\ \E i, j \in 1..Len(aux.log) :
          /\ i < j
          /\ aux.log[i].op = "Set" /\ aux.log[i].key = ret.res.key
          /\ aux.log[i].val # Zero
          /\ aux.log[j].op = "Delete" /\ aux.log[j].key = ret.res.key
    /\ Cardinality(RefKeys(aux.log)) = 1
    /\ LenVals(vals) = 1

-----------------------------------------------------------------------------
(***************************************************************************)
(* Spec: NumProcs goroutines call the mutating methods of one Map, and     *)
(* Version, in any interleaving.  The Map starts as the zero value or as   *)
(* NewMap(values).  Mutating calls start while ver < MaxVer.               *)
(* aux.setPre is the version the store had just before the latest Set that *)
(* has returned took effect (-1: no Set has returned); aux.floor[p] is     *)
(* aux.setPre as it was when p's running Version call started, and         *)
(* aux.seen is that floor for the Version call that has just returned.     *)
(***************************************************************************)

\* NewMap, map.go:23-27: maps.Clone(nil) is nil
NewMap(values) == IF values = Nil THEN Nil ELSE Alloc(KeyValuesOf(values))

InitProcs ==
    /\ mx = Unlocked
    /\ pc = [p \in Procs |-> "idle"]
    /\ call = [p \in Procs |-> NoCall]
    /\ ret = NoRet

NoFloor == [p \in Procs |-> -1]

Init ==
    /\ InitProcs
    /\ ver = 0
    /\ set = ZeroSet
    /\ \E values \in {Nil} \cup {Alloc(m) : m \in AllMaps} : vals = NewMap(values)
    /\ aux = [setPre |-> -1, floor |-> NoFloor, seen |-> -1]

\* No Version call starts or returns in this step
Unseen == aux' = [aux EXCEPT !.seen = -1]

DoSetLock == \E p \in Procs, k \in Keys, x \in Vals :
    ver < MaxVer /\ Map_Set_Lock(p, k, x) /\ Unseen
DoSetIsNil == \E p \in Procs : Map_Set_IsNil(p) /\ Unseen
DoSet == \E p \in Procs :
    Map_Set(p) /\ aux' = [aux EXCEPT !.setPre = ver, !.seen = -1]
DoDeleteLock == \E p \in Procs, k \in Keys :
    ver < MaxVer /\ Map_Delete_Lock(p, k) /\ Unseen
DoDelete == \E p \in Procs : Map_Delete(p) /\ Unseen
DoClearLock == \E p \in Procs : ver < MaxVer /\ Map_Clear_Lock(p) /\ Unseen
DoClear == \E p \in Procs : Map_Clear(p) /\ Unseen
DoPopLock == \E p \in Procs : ver < MaxVer /\ Map_Pop_Lock(p) /\ Unseen
DoPop == \E p \in Procs : Map_Pop(p) /\ Unseen
DoPopAllLock == \E p \in Procs : ver < MaxVer /\ Map_PopAll_Lock(p) /\ Unseen
DoPopAll == \E p \in Procs : Map_PopAll(p) /\ Unseen
DoIncrement == \E p \in Procs, k \in Keys, d \in Vals :
    Map_Increment(p, k, d) /\ Unseen
DoVersionRLock == \E p \in Procs :
    Map_Version_RLock(p) /\ aux' = [aux EXCEPT !.floor[p] = aux.setPre, !.seen = -1]
DoVersion == \E p \in Procs :
    Map_Version(p) /\ aux' = [aux EXCEPT !.floor[p] = -1, !.seen = aux.floor[p]]

Next ==
    \/ DoSetLock \/ DoSetIsNil \/ DoSet
    \/ DoDeleteLock \/ DoDelete
    \/ DoClearLock \/ DoClear
    \/ DoPopLock \/ DoPop
    \/ DoPopAllLock \/ DoPopAll
    \/ DoIncrement
    \/ DoVersionRLock \/ DoVersion

Spec == Init /\ [][Next]_vars

\* C5: a Version call that starts after a Set call has returned returns
\* more than the version the store had just before that Set took effect.
C5_VersionReflectsSet ==
    (ret.res.op = "Version" /\ aux.seen >= 0) => ret.res.ver > aux.seen

\* A Version call that started after a Set had returned has returned a
\* version that counts that Set and a later mutation, while another reader
\* still holds the lock in shared mode.
C5_Witness ==
    /\ ret.res.op = "Version"
    /\ aux.seen >= 0
    /\ ret.res.ver > aux.seen + 1
    /\ \E q \in Procs \ {ret.proc} : pc[q] = "Version" /\ q \in mx.r

\* The steps of p across which the version must grow strictly, apart from
\* Increment: a Set, a PopAll, a Delete against a non-empty store.
StrictStep(p) ==
    \/ Map_Set(p)
    \/ Map_PopAll(p)
    \/ Map_Delete(p) /\ LenVals(vals) > 0

IncrementStep(p) == \E k \in Keys, d \in Vals : Map_Increment(p, k, d)

\* C2: across every step the version does not decrease, and it grows
\* strictly across every Set, every Increment, every PopAll and every
\* Delete against a non-empty store.
C2_VersionGrows ==
    [][/\ ver' >= ver
       /\ \A p \in Procs : (StrictStep(p) \/ IncrementStep(p)) => ver' > ver]_vars

\* The same without Increment, which holds of the code.
VersionGrowsExceptIncrement ==
    [][/\ ver' >= ver
       /\ \A p \in Procs : StrictStep(p) => ver' > ver]_vars

-----------------------------------------------------------------------------
(***************************************************************************)
(* SpecSetters: NumSetters goroutines each call Set once, goroutine p on   *)
(* key p, on the zero-value Map, in any interleaving.  aux.done is the set *)
(* of goroutines whose Set has returned.  When all have returned (the      *)
(* barrier), a goroutine calls Len or Exists.                              *)
(***************************************************************************)

Setters == 1..NumSetters

InitSetters ==
    /\ mx = Unlocked
    /\ ver = 0
    /\ vals = Nil
    /\ set = ZeroSet
    /\ pc = [p \in Setters |-> "idle"]
    /\ call = [p \in Setters |-> NoCall]
    /\ ret = NoRet
    /\ aux = [started |-> {}, done |-> {}]

SettersSetLock == \E p \in Setters \ aux.started, x \in Vals :
    /\ Map_Set_Lock(p, p, x)
    /\ aux' = [aux EXCEPT !.started = @ \cup {p}]
SettersSetIsNil == \E p \in Setters : Map_Set_IsNil(p) /\ UNCHANGED aux
SettersSet == \E p \in Setters :
    /\ Map_Set(p)
    /\ aux' = [aux EXCEPT !.done = @ \cup {p}]
SettersLenRLock == \E p \in Setters :
    aux.done = Setters /\ Map_Len_RLock(p) /\ UNCHANGED aux
SettersLen == \E p \in Setters : Map_Len(p) /\ UNCHANGED aux
SettersExistsRLock == \E p \in Setters, k \in Setters :
    aux.done = Setters /\ Map_Exists_RLock(p, k) /\ UNCHANGED aux
SettersExists == \E p \in Setters : Map_Exists(p) /\ UNCHANGED aux

NextSetters ==
    \/ SettersSetLock \/ SettersSetIsNil \/ SettersSet
    \/ SettersLenRLock \/ SettersLen
    \/ SettersExistsRLock \/ SettersExists

SpecSetters == InitSetters /\ [][NextSetters]_vars

\* C3: once the Set calls of all NumSetters goroutines, on pairwise distinct
\* keys of a zero-value Map, have returned, Len returns NumSetters and
\* Exists returns true for each of the keys.
C3_NoLostWrite ==
    aux.done = Setters =>
        /\ ret.res.op = "Len" => ret.res.n = NumSetters
        /\ ret.res.op = "Exists" => ret.res.ok

\* Len has returned after the barrier.
C3_Witness ==
    /\ aux.done = Setters
    /\ ret.res.op = "Len"
    /\ ret.res.n = NumSetters
    /\ ver = NumSetters

-----------------------------------------------------------------------------
(***************************************************************************)
(* SpecDrain: the goroutines 1..NumProcs each call Set once, goroutine p   *)
(* on key p, and NumDrainers more goroutines each call PopAll once, in any *)
(* interleaving, on a zero-value store.  aux.kind says whether the store   *)
(* is the Map or the Set.  aux.sent[p] is <<x>> once p's Set of value x    *)
(* has returned; aux.popped lists what the PopAll calls returned.          *)
(***************************************************************************)

DrainSetters == 1..NumProcs
Drainers == (NumProcs + 1)..(NumProcs + NumDrainers)

InitDrain ==
    /\ mx = Unlocked
    /\ ver = 0
    /\ vals = Nil
    /\ set = ZeroSet
    /\ pc = [p \in DrainSetters \cup Drainers |-> "idle"]
    /\ call = [p \in DrainSetters \cup Drainers |-> NoCall]
    /\ ret = NoRet
    /\ \E kind \in {"Map", "Set"} :
          aux = [kind |-> kind, started |-> {},
                 sent |-> [p \in DrainSetters |-> <<>>], popped |-> <<>>]

Starts(p) == aux' = [aux EXCEPT !.started = @ \cup {p}]

DrainSetLock == \E p \in DrainSetters \ aux.started, x \in Vals :
    /\ aux.kind = "Map"
    /\ Map_Set_Lock(p, p, x)
    /\ Starts(p)
DrainSetIsNil == \E p \in DrainSetters : Map_Set_IsNil(p) /\ UNCHANGED aux
DrainSet == \E p \in DrainSetters :
    /\ Map_Set(p)
    /\ aux' = [aux EXCEPT !.sent[p] = <<call[p].val>>]
DrainPopAllLock == \E p \in Drainers \ aux.started :
    /\ aux.kind = "Map"
    /\ Map_PopAll_Lock(p)
    /\ Starts(p)
DrainPopAll == \E p \in Drainers :
    /\ Map_PopAll(p)
    /\ aux' = [aux EXCEPT !.popped = Append(@, vals)]
DrainAddLock == \E p \in DrainSetters \ aux.started :
    /\ aux.kind = "Set"
    /\ Set_Set_Lock(p, p)
    /\ Starts(p)
DrainAddIsNil == \E p \in DrainSetters : Set_Set_IsNil(p) /\ UNCHANGED aux
DrainAdd == \E p \in DrainSetters :
    /\ Set_Set(p)
    /\ aux' = [aux EXCEPT !.sent[p] = <<Unit>>]
DrainSetPopAllLock == \E p \in Drainers \ aux.started :
    /\ aux.kind = "Set"
    /\ Set_PopAll_Lock(p)
    /\ Starts(p)
DrainSetPopAll == \E p \in Drainers :
    /\ Set_PopAll(p)
    /\ aux' = [aux EXCEPT !.popped = Append(@, ret'.res.values)]

NextDrain ==
    \/ DrainSetLock \/ DrainSetIsNil \/ DrainSet
    \/ DrainPopAllLock \/ DrainPopAll
    \/ DrainAddLock \/ DrainAddIsNil \/ DrainAdd
    \/ DrainSetPopAllLock \/ DrainSetPopAll

SpecDrain == InitDrain /\ [][NextDrain]_vars

\* How often key k, with value x, occurs in what one PopAll returned: a map
\* for Map.PopAll, a slice of keys for Set.PopAll
InResult(r, k, x) ==
    IF r = Nil THEN 0
    ELSE IF aux.kind = "Map"
         THEN (IF k \in DOMAIN r[1] /\ r[1][k] = x THEN 1 ELSE 0)
         ELSE Cardinality({i \in DOMAIN r[1] : r[1][i] = k})

InStore(k, x) ==
    LET v == IF aux.kind = "Map" THEN vals ELSE set.vals
    IN IF v # Nil /\ k \in DOMAIN v[1] /\ v[1][k] = x THEN 1 ELSE 0

RECURSIVE SumInResults(_, _, _)
SumInResults(rs, k, x) ==
    IF rs = <<>> THEN 0
    ELSE InResult(Head(rs), k, x) + SumInResults(Tail(rs), k, x)

Places(k, x) == SumInResults(aux.popped, k, x) + InStore(k, x)

KeysOfResult(r) ==
    IF r = Nil THEN {}
    ELSE IF aux.kind = "Map" THEN DOMAIN r[1] ELSE {r[1][i] : i \in DOMAIN r[1]}

StoreKeys == DOMAIN Entries(IF aux.kind = "Map" THEN vals ELSE set.vals)

\* C4: with PopAll calls interleaved with Set calls on distinct keys, every
\* entry whose Set has returned is in exactly one place, the result of one
\* PopAll call or the store; no other entry is anywhere; and the store is
\* empty when a PopAll has just taken effect.
C4_ExactlyOnePlace ==
    /\ \A p \in DrainSetters :
          aux.sent[p] # <<>> => Places(p, aux.sent[p][1]) = 1
    /\ \A k \in StoreKeys \cup UNION {KeysOfResult(aux.popped[i]) : i \in DOMAIN aux.popped} :
          k \in DrainSetters /\ aux.sent[k] # <<>> /\ Places(k, aux.sent[k][1]) = 1
    /\ ret.res.op \in {"PopAll", "Set.PopAll"} => StoreKeys = {}

\* All calls have returned; one entry went out with the first PopAll,
\* another with a later PopAll.
C4_Witness ==
    /\ \A p \in DrainSetters : aux.sent[p] # <<>>
    /\ Len(aux.popped) = NumDrainers
    /\ \E i, j \in DOMAIN aux.popped :
          i < j /\ KeysOfResult(aux.popped[i]) # {} /\ KeysOfResult(aux.popped[j]) # {}

-----------------------------------------------------------------------------
(***************************************************************************)
(* SpecIncrement: NumProcs goroutines request Increment, at most MaxOps    *)
(* times in all, and call Get, on the zero-value Map.  aux.sum[k] is the   *)
(* sum of the deltas of the Increment requests for k made so far.          *)
(***************************************************************************)

InitIncrement ==
    /\ InitProcs
    /\ ver = 0
    /\ vals = Nil
    /\ set = ZeroSet
    /\ aux = [n |-> 0, sum |-> [k \in Keys |-> Zero]]

IncIncrement == \E p \in Procs, k \in Keys, d \in Vals :
    /\ aux.n < MaxOps
    /\ Map_Increment(p, k, d)
    /\ aux' = [n |-> aux.n + 1, sum |-> [aux.sum EXCEPT ![k] = @ + d]]
IncGetRLock == \E p \in Procs, k \in Keys : Map_Get_RLock(p, k) /\ UNCHANGED aux
IncGet == \E p \in Procs : Map_Get(p) /\ UNCHANGED aux

NextIncrement == IncIncrement \/ IncGetRLock \/ IncGet

SpecIncrement == InitIncrement /\ [][NextIncrement]_vars

\* C6: after any interleaving of Increment calls, Get(key) returns the
\* initial value (zero) plus the sum of the deltas of the calls on key.
C6_IncrementSums ==
    ret.res.op = "Get" => ret.res.val = aux.sum[ret.res.key]

-----------------------------------------------------------------------------
(***************************************************************************)
(* SpecGetOrSet: NumProcs goroutines call GetOrSet, Set and Delete on the  *)
(* zero-value Map, in any interleaving; calls start while ver < MaxVer.    *)
(* For the GetOrSet call that p is running, aux.g[p].enter is <<ver, vals>>*)
(* when it took the read lock (kept until its lookup), present whether its *)
(* key was in the store at its lookup, inv how often it has called fn and  *)
(* fnval what fn returned.  aux.last holds these for the GetOrSet call     *)
(* that has just returned, with the version before the returning step.     *)
(***************************************************************************)

NoLast == [proc |-> NoProc]
NoGhost == [enter |-> <<>>, present |-> FALSE, inv |-> 0, fnval |-> <<>>]

InitGetOrSet ==
    /\ InitProcs
    /\ ver = 0
    /\ vals = Nil
    /\ set = ZeroSet
    /\ aux = [g |-> [p \in Procs |-> NoGhost], last |-> NoLast]

Quiet == aux' = [aux EXCEPT !.last = NoLast]
Returned(p, g) ==
    aux' = [g |-> [aux.g EXCEPT ![p] = NoGhost],
            last |-> [proc |-> p, g |-> g, ver |-> ver]]

GosRLock == \E p \in Procs, k \in Keys :
    /\ ver < MaxVer
    /\ Map_GetOrSet_RLock(p, k)
    /\ aux' = [g |-> [aux.g EXCEPT ![p] = [NoGhost EXCEPT !.enter = <<ver, vals>>]],
               last |-> NoLast]
GosCheck == \E p \in Procs :
    /\ Map_GetOrSet_Check(p)
    /\ LET present == call[p].key \in DOMAIN Entries(vals)
       IN IF pc'[p] = "idle"
            THEN Returned(p, [aux.g[p] EXCEPT !.present = present])
            ELSE aux' = [g |-> [aux.g EXCEPT ![p] =
                                  [NoGhost EXCEPT !.present = present, !.inv = 1]],
                         last |-> NoLast]
GosFnReturn == \E p \in Procs, x \in Vals :
    /\ Map_GetOrSet_FnReturn(p, x)
    /\ aux' = [g |-> [aux.g EXCEPT ![p].fnval = <<x>>], last |-> NoLast]
GosSetLock == \E p \in Procs : Map_GetOrSet_Set_Lock(p) /\ Quiet
GosPlainSetLock == \E p \in Procs, k \in Keys, x \in Vals :
    ver < MaxVer /\ Map_Set_Lock(p, k, x) /\ Quiet
GosSetIsNil == \E p \in Procs : Map_Set_IsNil(p) /\ Quiet
GosSet == \E p \in Procs :
    /\ Map_Set(p)
    /\ IF call[p].outer = "GetOrSet" THEN Returned(p, aux.g[p]) ELSE Quiet
GosDeleteLock == \E p \in Procs, k \in Keys :
    ver < MaxVer /\ Map_Delete_Lock(p, k) /\ Quiet
GosDelete == \E p \in Procs : Map_Delete(p) /\ Quiet

NextGetOrSet ==
    \/ GosRLock \/ GosCheck \/ GosFnReturn \/ GosSetLock
    \/ GosPlainSetLock \/ GosSetIsNil \/ GosSet
    \/ GosDeleteLock \/ GosDelete

SpecGetOrSet == InitGetOrSet /\ [][NextGetOrSet]_vars

HoldsNoLock(p) == p \notin mx.r /\ mx.w # p

\* C7: a GetOrSet call whose key is present at its read-locked lookup does
\* not call fn, returns the stored value and leaves entries and version as
\* they were; a call whose key is absent calls fn exactly once, holds no
\* lock from then until it enters Set, then performs Set(key, result) and
\* returns that result.
C7_GetOrSet ==
    /\ \A p \in Procs :
          pc[p] \in {"GetOrSet_fn", "GetOrSet_set"} =>
              /\ HoldsNoLock(p)
              /\ ~aux.g[p].present
              /\ aux.g[p].inv = 1
    /\ (ret.res.op = "GetOrSet" /\ aux.last.g.present) =>
          /\ ~ret.res.called
          /\ aux.last.g.inv = 0
          /\ aux.last.g.enter = <<ver, vals>>
          /\ ret.res.val = vals[1][ret.res.key]
    /\ (ret.res.op = "GetOrSet" /\ ~aux.last.g.present) =>
          /\ ret.res.called
          /\ aux.last.g.inv = 1
          /\ ret.res.val = aux.last.g.fnval[1]
          /\ ExistsKey(vals, ret.res.key)
          /\ GetVal(vals, ret.res.key) = ret.res.val
          /\ ver = aux.last.ver + 1

\* While fn runs for p, which found its key absent and holds no lock,
\* another goroutine's Set of that key has taken effect.
C7_Witness ==
    \E p \in Procs :
        /\ pc[p] = "GetOrSet_fn"
        /\ HoldsNoLock(p)
        /\ ~aux.g[p].present
        /\ ExistsKey(vals, call[p].key)

\* A GetOrSet call has returned the stored value without calling fn.
GetOrSetHit ==
    ret.res.op = "GetOrSet" /\ ~ret.res.called /\ ret.res.val # Zero

-----------------------------------------------------------------------------
(***************************************************************************)
(* SpecMisses: the goroutines 1..NumProcs each call GetOrSet once, all on  *)
(* key TheKey of the zero-value Map, and one more goroutine calls          *)
(* Set(TheKey, x) once, in any interleaving.  aux.inv counts the calls of  *)
(* fn, aux.rets[p] is <<what p's GetOrSet returned>>, aux.written lists    *)
(* the values written by the Set steps in the order they took effect, and  *)
(* aux.plainFirst says that the plain Set took effect before any lookup    *)
(* missed.                                                                 *)
(***************************************************************************)

TheKey == CHOOSE k \in Keys : TRUE
PlainSetter == NumProcs + 1

InitMisses ==
    /\ mx = Unlocked
    /\ ver = 0
    /\ vals = Nil
    /\ set = ZeroSet
    /\ pc = [p \in Procs \cup {PlainSetter} |-> "idle"]
    /\ call = [p \in Procs \cup {PlainSetter} |-> NoCall]
    /\ ret = NoRet
    /\ aux = [started |-> {}, inv |-> 0, rets |-> [p \in Procs |-> <<>>],
              written |-> <<>>, plainFirst |-> FALSE]

MissRLock == \E p \in Procs \ aux.started :
    /\ Map_GetOrSet_RLock(p, TheKey)
    /\ aux' = [aux EXCEPT !.started = @ \cup {p}]
MissCheck == \E p \in Procs :
    /\ Map_GetOrSet_Check(p)
    /\ IF pc'[p] = "idle"
         THEN aux' = [aux EXCEPT !.rets[p] = <<ret'.res.val>>]
         ELSE aux' = [aux EXCEPT !.inv = @ + 1]
MissFnReturn == \E p \in Procs, x \in Vals :
    Map_GetOrSet_FnReturn(p, x) /\ UNCHANGED aux
MissSetLock == \E p \in Procs : Map_GetOrSet_Set_Lock(p) /\ UNCHANGED aux
MissPlainSetLock == \E x \in Vals :
    /\ PlainSetter \notin aux.started
    /\ Map_Set_Lock(PlainSetter, TheKey, x)
    /\ aux' = [aux EXCEPT !.started = @ \cup {PlainSetter}]
MissSetIsNil == \E p \in Procs \cup {PlainSetter} : Map_Set_IsNil(p) /\ UNCHANGED aux
MissSet == \E p \in Procs \cup {PlainSetter} :
    /\ Map_Set(p)
    /\ aux' = [aux EXCEPT
                 !.written = Append(@, call[p].val),
                 !.rets = IF p \in Procs THEN [@ EXCEPT ![p] = <<ret'.res.val>>] ELSE @,
                 !.plainFirst = @ \/ (p = PlainSetter /\ aux.inv = 0)]

NextMisses ==
    \/ MissRLock \/ MissCheck \/ MissFnReturn \/ MissSetLock
    \/ MissPlainSetLock \/ MissSetIsNil \/ MissSet

SpecMisses == InitMisses /\ [][NextMisses]_vars

MissesDone == \A p \in Procs : aux.rets[p] # <<>>

\* C8: when NumProcs GetOrSet calls on the same initially absent key have
\* all returned, fn has been called at least once (unless a plain Set put
\* the key there before any lookup) and at most NumProcs times, once per
\* Set that a GetOrSet call performed, and the value stored is the one
\* written by the Set that took effect last.
C8_AtLeastOnceLastWins ==
    /\ aux.inv <= NumProcs
    /\ aux.written # <<>> => GetVal(vals, TheKey) = aux.written[Len(aux.written)]
    /\ MissesDone =>
          /\ aux.inv >= 1 \/ aux.plainFirst
          /\ Len(aux.written) = aux.inv + (IF pc[PlainSetter] = "idle" /\ PlainSetter \in aux.started THEN 1 ELSE 0)

\* All calls have returned; every GetOrSet call called fn; the plain Set
\* took effect between a lookup and that call's own Set and was
\* overwritten; and one GetOrSet call returned a value that is not the
\* value finally stored.
C8_Witness ==
    /\ MissesDone
    /\ PlainSetter \in aux.started /\ pc[PlainSetter] = "idle"
    /\ aux.inv = NumProcs
    /\ ~aux.plainFirst
    /\ \E p \in Procs : aux.rets[p][1] # GetVal(vals, TheKey)

\* All GetOrSet calls have returned and fn was called once.
MissesSingleInvocation == MissesDone /\ aux.inv = 1 /\ ~aux.plainFirst

-----------------------------------------------------------------------------
(***************************************************************************)
(* SpecDecode: goroutines decode JSON texts and gob streams into a Map or  *)
(* a Set (aux.kind) that other calls have filled before.  aux.dec records, *)
(* for the decode call that has just returned, the version and the entries *)
(* E before the call and the mapping D that its input encodes.             *)
(***************************************************************************)

SeqsUpTo(S, n) == UNION {[1..i -> S] : i \in 0..n}

BadText == "x"

\* Object members: every key with every value, a name that is not an
\* integer, and a value that is not a number
JSONMembers ==
    {[key |-> FormatInt(k), val |-> NumToken(x)] : k \in Keys, x \in Vals}
      \cup {[key |-> BadText, val |-> NumToken(Zero)]}
      \cup {[key |-> FormatInt(k), val |-> StrToken(BadText)] : k \in Keys}

JSONMapInputs ==
    {[kind |-> "invalid"], [kind |-> "null"], [kind |-> "array", elems |-> <<>>]}
      \cup {[kind |-> "object", members |-> q] : q \in SeqsUpTo(JSONMembers, MaxMembers)}

JSONSetInputs ==
    {[kind |-> "invalid"], [kind |-> "null"], [kind |-> "object", members |-> <<>>]}
      \cup {[kind |-> "array", elems |-> q] :
              q \in SeqsUpTo({NumToken(k) : k \in Keys} \cup {StrToken(BadText)}, MaxMembers)}

GobMapInputs ==
    {[kind |-> "invalid"]}
      \cup {[kind |-> "map", pairs |-> q] : q \in SeqsUpTo(Keys \X Vals, MaxMembers)}

GobSetInputs ==
    {[kind |-> "invalid"]}
      \cup {[kind |-> "slice", elems |-> q] : q \in SeqsUpTo(Keys, MaxMembers)}

\* The mapping that a JSON text or a gob stream encodes: the members of an
\* object or the pairs of a map, a later one replacing an earlier one with
\* the same key; the elements of an array or a slice, each mapped to Unit.
MappingOf(data) ==
    CASE data.kind = "object" -> JSONStoreMembers(EmptyMap, data.members)
      [] data.kind = "map" -> GobStorePairs(EmptyMap, data.pairs)
      [] data.kind = "array" ->
           [k \in {ParseInt(data.elems[i].text)[1] : i \in DOMAIN data.elems} |-> Unit]
      [] data.kind = "slice" ->
           [k \in {data.elems[i] : i \in DOMAIN data.elems} |-> Unit]
      [] OTHER -> EmptyMap

NoDec == [ver |-> -1]

InitDecode ==
    /\ InitProcs
    /\ ver = 0
    /\ \E values \in {Nil} \cup {Alloc(m) : m \in AllMaps} : vals = NewMap(values)
    /\ set = ZeroSet
    /\ \E kind \in {"Map", "Set"} : aux = [kind |-> kind, dec |-> NoDec]

\* aux.dec is dropped by the step after the return; the D of a Set decode
\* that holds the lock (ver = -1) stays until its return
Undecoded == aux' = [aux EXCEPT !.dec = IF @.ver >= 0 THEN NoDec ELSE @]

DecSetLock == \E p \in Procs, k \in Keys, x \in Vals :
    /\ aux.kind = "Map" /\ ver < MaxVer
    /\ Map_Set_Lock(p, k, x)
    /\ Undecoded
DecSetIsNil == \E p \in Procs : Map_Set_IsNil(p) /\ Undecoded
DecSet == \E p \in Procs : Map_Set(p) /\ Undecoded
DecUnmarshalJSONLock == \E p \in Procs :
    /\ aux.kind = "Map" /\ ver < MaxVer
    /\ Map_UnmarshalJSON_Lock(p)
    /\ Undecoded
DecUnmarshalJSON == \E p \in Procs, data \in JSONMapInputs :
    /\ Map_UnmarshalJSON(p, data)
    /\ aux' = [aux EXCEPT !.dec = [ver |-> ver, E |-> Entries(vals), D |-> MappingOf(data)]]
DecBinaryDecodeLock == \E p \in Procs :
    /\ aux.kind = "Map" /\ ver < MaxVer
    /\ Map_BinaryDecode_Lock(p)
    /\ Undecoded
DecBinaryDecode == \E p \in Procs, data \in GobMapInputs :
    /\ Map_BinaryDecode(p, data)
    /\ aux' = [aux EXCEPT !.dec = [ver |-> ver, E |-> Entries(vals), D |-> MappingOf(data)]]
DecAddLock == \E p \in Procs, k \in Keys :
    /\ aux.kind = "Set" /\ set.ver < MaxVer
    /\ Set_Set_Lock(p, k)
    /\ Undecoded
DecAddIsNil == \E p \in Procs : Set_Set_IsNil(p) /\ Undecoded
DecAdd == \E p \in Procs : Set_Set(p) /\ Undecoded
DecSetUnmarshalJSONFail == \E p \in Procs, data \in JSONSetInputs :
    /\ aux.kind = "Set"
    /\ Set_UnmarshalJSON_Fail(p, data)
    /\ Undecoded
DecSetUnmarshalJSONLock == \E p \in Procs, data \in JSONSetInputs :
    /\ aux.kind = "Set" /\ set.ver < MaxVer
    /\ Set_UnmarshalJSON_Lock(p, data)
    /\ aux' = [aux EXCEPT !.dec = [ver |-> -1, D |-> MappingOf(data)]]
DecSetUnmarshalJSON == \E p \in Procs :
    /\ Set_UnmarshalJSON(p)
    /\ aux' = [aux EXCEPT !.dec = [ver |-> set.ver, E |-> Entries(set.vals), D |-> aux.dec.D]]
DecSetBinaryDecodeFail == \E p \in Procs, data \in GobSetInputs :
    /\ aux.kind = "Set"
    /\ Set_BinaryDecode_Fail(p, data)
    /\ Undecoded
DecSetBinaryDecodeLock == \E p \in Procs, data \in GobSetInputs :
    /\ aux.kind = "Set" /\ set.ver < MaxVer
    /\ Set_BinaryDecode_Lock(p, data)
    /\ aux' = [aux EXCEPT !.dec = [ver |-> -1, D |-> MappingOf(data)]]
DecSetBinaryDecode == \E p \in Procs :
    /\ Set_BinaryDecode(p)
    /\ aux' = [aux EXCEPT !.dec = [ver |-> set.ver, E |-> Entries(set.vals), D |-> aux.dec.D]]

NextDecode ==
    \/ DecSetLock \/ DecSetIsNil \/ DecSet
    \/ DecUnmarshalJSONLock \/ DecUnmarshalJSON
    \/ DecBinaryDecodeLock \/ DecBinaryDecode
    \/ DecAddLock \/ DecAddIsNil \/ DecAdd
    \/ DecSetUnmarshalJSONFail \/ DecSetUnmarshalJSONLock \/ DecSetUnmarshalJSON
    \/ DecSetBinaryDecodeFail \/ DecSetBinaryDecodeLock \/ DecSetBinaryDecode

SpecDecode == InitDecode /\ [][NextDecode]_vars

MapDecoded == ret.res.op \in {"UnmarshalJSON", "BinaryDecode"} /\ ~ret.res.err
SetDecoded == ret.res.op \in {"Set.UnmarshalJSON", "Set.BinaryDecode"} /\ ~ret.res.err

\* C9: when a decode has returned without an error, the store holds exactly
\* the mapping D that the input encodes, whatever entries E it held before,
\* and its version is one more than before the call.  Stated for the four
\* decoders: Map.UnmarshalJSON, Map.BinaryDecode, Set.UnmarshalJSON and
\* Set.BinaryDecode.
C9_DecodeReplaces ==
    /\ MapDecoded => Entries(vals) = aux.dec.D /\ ver = aux.dec.ver + 1
    /\ SetDecoded => Entries(set.vals) = aux.dec.D /\ set.ver = aux.dec.ver + 1

\* The two decoders of Set do replace the contents.
SetDecodeReplaces ==
    SetDecoded => Entries(set.vals) = aux.dec.D /\ set.ver = aux.dec.ver + 1

\* The two decoders of Map increment the version, whether or not they
\* return an error.
MapDecodeIncrementsVersion ==
    ret.res.op \in {"UnmarshalJSON", "BinaryDecode"} => ver = aux.dec.ver + 1

\* What the two decoders of Map leave in the store: D on top of E, and
\* nothing when the text is null.
MapDecodeMerges ==
    MapDecoded =>
      Entries(vals) =
        IF ret.res.op = "UnmarshalJSON" /\ aux.dec.D = EmptyMap /\ vals = Nil
          THEN EmptyMap
          ELSE [k \in DOMAIN aux.dec.E \cup DOMAIN aux.dec.D |->
                  IF k \in DOMAIN aux.dec.D THEN aux.dec.D[k] ELSE aux.dec.E[k]]

\* A Set decode has replaced entries that the input does not hold.
SetDecodeReplaces_Witness ==
    /\ SetDecoded
    /\ \E k \in DOMAIN aux.dec.E : k \notin DOMAIN Entries(set.vals)
    /\ Entries(set.vals) # EmptyMap

-----------------------------------------------------------------------------
(***************************************************************************)
(* SpecRoundTrip: the goroutine Encoder calls MarshalJSON on the shared    *)
(* Map and later decodes the text with UnmarshalJSON into a new Map and    *)
(* calls KeyValues on that, while the other goroutines call Set and Delete *)
(* on the shared Map.  aux.held is the text Encoder holds, with the        *)
(* entries snap that the shared Map held when KeyValues copied them.       *)
(***************************************************************************)

NoHeld == [data |-> [kind |-> "none"]]

InitRoundTrip ==
    /\ InitProcs
    /\ ver = 0
    /\ \E values \in {Nil} \cup {Alloc(m) : m \in AllMaps} : vals = NewMap(values)
    /\ set = ZeroSet
    /\ aux = [held |-> NoHeld]

\* The text and its ghost are dropped once the round trip has returned.
Kept == aux' = [aux EXCEPT !.held = IF ret.res.op = "RoundTrip" THEN NoHeld ELSE @]

\* The zero value of Map, map.go:17-21
ZeroMap == [ver |-> 0, vals |-> Nil]

\* var m2 Map; m2.UnmarshalJSON(data); m2.KeyValues()
FromJSON(data) ==
    [kv |-> KeyValuesOf(UnmarshalJSONOf(ZeroMap.vals, ZeroMap.ver, data).vals),
     err |-> UnmarshalJSONOf(ZeroMap.vals, ZeroMap.ver, data).err]

Encoder == CHOOSE p \in Procs : TRUE
Mutators == Procs \ {Encoder}

RtMarshalJSONRLock ==
    /\ aux.held = NoHeld \/ ret.res.op = "RoundTrip"
    /\ Map_MarshalJSON_RLock(Encoder)
    /\ Kept
RtMarshalJSON ==
    /\ Map_MarshalJSON(Encoder)
    /\ aux' = [aux EXCEPT !.held = [data |-> ret'.res.data, snap |-> Entries(vals)]]
RtFromJSON ==
    /\ aux.held # NoHeld /\ ret.res.op # "RoundTrip"
    /\ pc[Encoder] = "idle"
    /\ ret' = [proc |-> Encoder,
               res |-> [op |-> "RoundTrip", kv |-> FromJSON(aux.held.data).kv,
                        err |-> FromJSON(aux.held.data).err]]
    /\ UNCHANGED <<mapVars, set, pc, call, aux>>
RtSetLock == \E p \in Mutators, k \in Keys, x \in Vals :
    /\ ver < MaxVer
    /\ Map_Set_Lock(p, k, x)
    /\ Kept
RtSetIsNil == \E p \in Mutators : Map_Set_IsNil(p) /\ Kept
RtSet == \E p \in Mutators : Map_Set(p) /\ Kept
RtDeleteLock == \E p \in Mutators, k \in Keys :
    /\ ver < MaxVer
    /\ Map_Delete_Lock(p, k)
    /\ Kept
RtDelete == \E p \in Mutators : Map_Delete(p) /\ Kept

NextRoundTrip ==
    \/ RtMarshalJSONRLock \/ RtMarshalJSON \/ RtFromJSON
    \/ RtSetLock \/ RtSetIsNil \/ RtSet
    \/ RtDeleteLock \/ RtDelete

SpecRoundTrip == InitRoundTrip /\ [][NextRoundTrip]_vars

\* C10: MarshalJSON returns a text that encodes exactly the entries the Map
\* holds at the moment of the copy, and decoding that text with
\* UnmarshalJSON into a new Map succeeds and gives a Map whose KeyValues()
\* is those entries, whatever Set and Delete did to the first Map meanwhile.
C10_RoundTrip ==
    /\ ret.res.op = "MarshalJSON" => MappingOf(ret.res.data) = Entries(vals)
    /\ ret.res.op = "RoundTrip" => ~ret.res.err /\ ret.res.kv = aux.held.snap

\* A round trip of a full Map holding a zero value has returned, after the
\* shared Map has changed.
C10_Witness ==
    /\ ret.res.op = "RoundTrip"
    /\ DOMAIN ret.res.kv = Keys
    /\ \E k \in Keys : ret.res.kv[k] = Zero
    /\ \E k \in Keys : ret.res.kv[k] # Zero
    /\ Entries(vals) # ret.res.kv

-----------------------------------------------------------------------------
(* Set: Pop *)

Set_Pop_Lock(p) ==
    /\ SetCanLock
    /\ Enter(p, "Set.Pop", NoKey, Zero)
    /\ set' = [set EXCEPT !.mx.w = p]
    /\ UNCHANGED mapVars

\* set.go:96-107: the first key of the range, which may be any key
Set_Pop(p) ==
    /\ pc[p] = "Set.Pop"
    /\ IF set.vals # Nil /\ DOMAIN set.vals[1] # {}
         THEN \E k \in DOMAIN set.vals[1] :
                /\ set' = [mx |-> [set.mx EXCEPT !.w = NoProc],
                           ver |-> set.ver + 1,
                           vals |-> PopVals(set.vals, k)]
                /\ Leave(p, [op |-> "Set.Pop", key |-> k, val |-> Zero])
         ELSE /\ set' = [set EXCEPT !.mx.w = NoProc]
              /\ Leave(p, [op |-> "Set.Pop", key |-> NoKey, val |-> Zero])
    /\ UNCHANGED mapVars

(***************************************************************************)
(* SpecPop: the goroutines 1..NumProcs each call Set once, goroutine p     *)
(* with the key p, while NumDrainers further goroutines call Pop again and *)
(* again, on a Map or on a Set (aux.kind).  aux.pre is the version and the  *)
(* map at the Pop that has just returned, aux.popped the keys that the     *)
(* Pops have returned.                                                     *)
(***************************************************************************)

NoPre == [ver |-> -1]

InitPop ==
    /\ mx = Unlocked
    /\ ver = 0
    /\ vals = Nil
    /\ set = ZeroSet
    /\ pc = [p \in DrainSetters \cup Drainers |-> "idle"]
    /\ call = [p \in DrainSetters \cup Drainers |-> NoCall]
    /\ ret = NoRet
    /\ \E kind \in {"Map", "Set"} :
          aux = [kind |-> kind, started |-> {}, pre |-> NoPre, popped |-> <<>>]

\* The store of the kind under test: its version and its map
TheVer == IF aux.kind = "Map" THEN ver ELSE set.ver
TheVals == IF aux.kind = "Map" THEN vals ELSE set.vals

PopStep(started, pre, popped) ==
    aux' = [kind |-> aux.kind, started |-> started, pre |-> pre, popped |-> popped]

\* The keys returned so far, in the order of the returns
PoppedThen(k) == IF k = NoKey THEN aux.popped ELSE Append(aux.popped, k)

PopSetLock == \E p \in DrainSetters \ aux.started, x \in Vals :
    /\ aux.kind = "Map"
    /\ Map_Set_Lock(p, p, x)
    /\ PopStep(aux.started \cup {p}, NoPre, aux.popped)
PopSetIsNil == \E p \in DrainSetters :
    Map_Set_IsNil(p) /\ PopStep(aux.started, NoPre, aux.popped)
PopSet == \E p \in DrainSetters :
    Map_Set(p) /\ PopStep(aux.started, NoPre, aux.popped)
PopPopLock == \E p \in Drainers :
    /\ aux.kind = "Map"
    /\ Map_Pop_Lock(p)
    /\ PopStep(aux.started, NoPre, aux.popped)
PopPop == \E p \in Drainers :
    /\ Map_Pop(p)
    /\ PopStep(aux.started, [ver |-> ver, vals |-> vals], PoppedThen(ret'.res.key))
PopAddLock == \E p \in DrainSetters \ aux.started :
    /\ aux.kind = "Set"
    /\ Set_Set_Lock(p, p)
    /\ PopStep(aux.started \cup {p}, NoPre, aux.popped)
PopAddIsNil == \E p \in DrainSetters :
    Set_Set_IsNil(p) /\ PopStep(aux.started, NoPre, aux.popped)
PopAdd == \E p \in DrainSetters :
    Set_Set(p) /\ PopStep(aux.started, NoPre, aux.popped)
PopSetPopLock == \E p \in Drainers :
    /\ aux.kind = "Set"
    /\ Set_Pop_Lock(p)
    /\ PopStep(aux.started, NoPre, aux.popped)
PopSetPop == \E p \in Drainers :
    /\ Set_Pop(p)
    /\ PopStep(aux.started, [ver |-> set.ver, vals |-> set.vals], PoppedThen(ret'.res.key))

NextPop ==
    \/ PopSetLock \/ PopSetIsNil \/ PopSet
    \/ PopPopLock \/ PopPop
    \/ PopAddLock \/ PopAddIsNil \/ PopAdd
    \/ PopSetPopLock \/ PopSetPop

SpecPop == InitPop /\ [][NextPop]_vars

PopReturned == ret.res.op \in {"Pop", "Set.Pop"}

\* C11: a Pop that finds entries returns a key that was present, with the
\* value it had; afterwards the key is absent, the other entries are as
\* before (so Len is one less) and the version is one more.  A Pop on a nil
\* or empty map returns the zero key and value and leaves the map and the
\* version as they were.  No key is returned by two Pops.
C11_Pop ==
    /\ PopReturned /\ Entries(aux.pre.vals) # EmptyMap =>
          /\ ret.res.key \in DOMAIN Entries(aux.pre.vals)
          /\ aux.kind = "Map" => ret.res.val = Entries(aux.pre.vals)[ret.res.key]
          /\ Entries(TheVals) = Remove(Entries(aux.pre.vals), ret.res.key)
          /\ LenVals(TheVals) = LenVals(aux.pre.vals) - 1
          /\ TheVer = aux.pre.ver + 1
    /\ PopReturned /\ Entries(aux.pre.vals) = EmptyMap =>
          /\ ret.res.key = NoKey /\ ret.res.val = Zero
          /\ TheVals = aux.pre.vals
          /\ TheVer = aux.pre.ver
    /\ \A i, j \in DOMAIN aux.popped : i # j => aux.popped[i] # aux.popped[j]

\* Two Pops have each returned an entry, and a later Pop has found the map
\* allocated and empty.
C11_Witness ==
    /\ PopReturned
    /\ Len(aux.popped) >= 2
    /\ aux.pre.vals = Alloc(EmptyMap)
    /\ ret.res.key = NoKey

\* A Pop has found the map nil.
PopOnNil == PopReturned /\ aux.pre.vals = Nil

-----------------------------------------------------------------------------
(* Random *)

\* A draw that may also give cnt itself
RandomIndexes_Inclusive(cnt) == 0..cnt

\* rand.Intn(cnt), map.go:195: any n with 0 <= n < cnt
RandomIndexes(cnt) == 0..(cnt - 1)

\* map.go:196-202: the range visits the entries of m in the order q; the
\* entry at which the countdown from n reaches zero is returned, and the end
\* of the range is the panic
RandomScan(m, q, n) ==
    IF n < Len(q)
      THEN [op |-> "Random", key |-> q[n + 1], val |-> m[q[n + 1]], panic |-> FALSE]
      ELSE [op |-> "Random", key |-> NoKey, val |-> Zero, panic |-> TRUE]

Map_Random_RLock(p) ==
    /\ CanRLock
    /\ Enter(p, "Random", NoKey, Zero)
    /\ mx' = RLock(p)
    /\ UNCHANGED <<ver, vals>>
    /\ UNCHANGED set

\* map.go:193-195 and 204: cnt := len(m.vals); with cnt > 0 the index n is
\* drawn, otherwise the zero key and value are returned
Map_Random_Len(p) ==
    /\ pc[p] = "Random"
    /\ IF LenVals(vals) > 0
         THEN /\ \E n \in RandomIndexes(LenVals(vals)) :
                    call' = [call EXCEPT ![p].val = n]
              /\ pc' = [pc EXCEPT ![p] = "Random_scan"]
              /\ ret' = NoRet
              /\ UNCHANGED mx
         ELSE /\ mx' = RUnlock(p)
              /\ Leave(p, [op |-> "Random", key |-> NoKey, val |-> Zero, panic |-> FALSE])
    /\ UNCHANGED <<ver, vals>>
    /\ UNCHANGED set

\* map.go:196-202
Map_Random_Scan(p) ==
    /\ pc[p] = "Random_scan"
    /\ \E q \in SeqsOf(DOMAIN Entries(vals)) :
          Leave(p, RandomScan(Entries(vals), q, call[p].val))
    /\ mx' = RUnlock(p)
    /\ UNCHANGED <<ver, vals>>
    /\ UNCHANGED set

Set_Random_RLock(p) ==
    /\ SetCanRLock
    /\ Enter(p, "Set.Random", NoKey, Zero)
    /\ set' = [set EXCEPT !.mx.r = @ \cup {p}]
    /\ UNCHANGED mapVars

\* set.go:121-123 and 132
Set_Random_Len(p) ==
    /\ pc[p] = "Set.Random"
    /\ IF LenVals(set.vals) > 0
         THEN /\ \E n \in RandomIndexes(LenVals(set.vals)) :
                    call' = [call EXCEPT ![p].val = n]
              /\ pc' = [pc EXCEPT ![p] = "Set.Random_scan"]
              /\ ret' = NoRet
              /\ UNCHANGED set
         ELSE /\ set' = [set EXCEPT !.mx.r = @ \ {p}]
              /\ Leave(p, [op |-> "Random", key |-> NoKey, val |-> Zero, panic |-> FALSE])
    /\ UNCHANGED mapVars

\* set.go:124-130
Set_Random_Scan(p) ==
    /\ pc[p] = "Set.Random_scan"
    /\ \E q \in SeqsOf(DOMAIN Entries(set.vals)) :
          Leave(p, [RandomScan(Entries(set.vals), q, call[p].val) EXCEPT !.val = Zero])
    /\ set' = [set EXCEPT !.mx.r = @ \ {p}]
    /\ UNCHANGED mapVars

Set_Delete_Lock(p, k) ==
    /\ SetCanLock
    /\ Enter(p, "Set.Delete", k, Zero)
    /\ set' = [set EXCEPT !.mx.w = p]
    /\ UNCHANGED mapVars

\* set.go:45-53
Set_Delete(p) ==
    /\ pc[p] = "Set.Delete"
    /\ set' = [mx |-> [set.mx EXCEPT !.w = NoProc],
               ver |-> DeleteVer(set.vals, set.ver),
               vals |-> DeleteVals(set.vals, call[p].key)]
    /\ Leave(p, [op |-> "Set.Delete"])
    /\ UNCHANGED mapVars

(***************************************************************************)
(* SpecRandom: goroutines call Random, Set, Delete and PopAll on a Map or  *)
(* on a Set (aux.kind).                                                    *)
(***************************************************************************)

InitRandom ==
    /\ InitProcs
    /\ ver = 0
    /\ vals = Nil
    /\ set = ZeroSet
    /\ \E kind \in {"Map", "Set"} : aux = [kind |-> kind]

IsMap == aux.kind = "Map"
IsSet == aux.kind = "Set"

RndRandomRLock == \E p \in Procs : IsMap /\ Map_Random_RLock(p) /\ UNCHANGED aux
RndRandomLen == \E p \in Procs : Map_Random_Len(p) /\ UNCHANGED aux
RndRandomScan == \E p \in Procs : Map_Random_Scan(p) /\ UNCHANGED aux
RndSetLock == \E p \in Procs, k \in Keys, x \in Vals :
    IsMap /\ ver < MaxVer /\ Map_Set_Lock(p, k, x) /\ UNCHANGED aux
RndSetIsNil == \E p \in Procs : Map_Set_IsNil(p) /\ UNCHANGED aux
RndSet == \E p \in Procs : Map_Set(p) /\ UNCHANGED aux
RndDeleteLock == \E p \in Procs, k \in Keys :
    IsMap /\ ver < MaxVer /\ Map_Delete_Lock(p, k) /\ UNCHANGED aux
RndDelete == \E p \in Procs : Map_Delete(p) /\ UNCHANGED aux
RndPopAllLock == \E p \in Procs :
    IsMap /\ ver < MaxVer /\ Map_PopAll_Lock(p) /\ UNCHANGED aux
RndPopAll == \E p \in Procs : Map_PopAll(p) /\ UNCHANGED aux
RndSetRandomRLock == \E p \in Procs : IsSet /\ Set_Random_RLock(p) /\ UNCHANGED aux
RndSetRandomLen == \E p \in Procs : Set_Random_Len(p) /\ UNCHANGED aux
RndSetRandomScan == \E p \in Procs : Set_Random_Scan(p) /\ UNCHANGED aux
RndAddLock == \E p \in Procs, k \in Keys :
    IsSet /\ set.ver < MaxVer /\ Set_Set_Lock(p, k) /\ UNCHANGED aux
RndAddIsNil == \E p \in Procs : Set_Set_IsNil(p) /\ UNCHANGED aux
RndAdd == \E p \in Procs : Set_Set(p) /\ UNCHANGED aux
RndSetDeleteLock == \E p \in Procs, k \in Keys :
    IsSet /\ set.ver < MaxVer /\ Set_Delete_Lock(p, k) /\ UNCHANGED aux
RndSetDelete == \E p \in Procs : Set_Delete(p) /\ UNCHANGED aux
RndSetPopAllLock == \E p \in Procs :
    IsSet /\ set.ver < MaxVer /\ Set_PopAll_Lock(p) /\ UNCHANGED aux
RndSetPopAll == \E p \in Procs : Set_PopAll(p) /\ UNCHANGED aux

NextRandom ==
    \/ RndRandomRLock \/ RndRandomLen \/ RndRandomScan
    \/ RndSetLock \/ RndSetIsNil \/ RndSet
    \/ RndDeleteLock \/ RndDelete
    \/ RndPopAllLock \/ RndPopAll
    \/ RndSetRandomRLock \/ RndSetRandomLen \/ RndSetRandomScan
    \/ RndAddLock \/ RndAddIsNil \/ RndAdd
    \/ RndSetDeleteLock \/ RndSetDelete
    \/ RndSetPopAllLock \/ RndSetPopAll

SpecRandom == InitRandom /\ [][NextRandom]_vars

\* C12: Random never panics; what it returns is an entry the map holds at
\* that moment (for a Set: a member), or the zero key and value when the map
\* holds nothing.
C12_RandomFinds ==
    ret.res.op = "Random" =>
      /\ ~ret.res.panic
      /\ IF Entries(TheVals) = EmptyMap
           THEN ret.res.key = NoKey /\ ret.res.val = Zero
           ELSE /\ ret.res.key \in DOMAIN Entries(TheVals)
                /\ IsMap => ret.res.val = Entries(TheVals)[ret.res.key]

\* Random has returned an entry of a map that holds every key, after more
\* mutations than there are keys.
C12_Witness ==
    /\ ret.res.op = "Random"
    /\ DOMAIN Entries(TheVals) = Keys
    /\ ret.res.key \in Keys
    /\ TheVer >= NumKeys + 1

\* Random has returned zero values from an allocated map without entries.
RandomOnEmpty ==
    ret.res.op = "Random" /\ ret.res.key = NoKey /\ TheVals = Alloc(EmptyMap)

-----------------------------------------------------------------------------
(* Set: Clear *)

Set_Clear_Lock(p) ==
    /\ SetCanLock
    /\ Enter(p, "Set.Clear", NoKey, Zero)
    /\ set' = [set EXCEPT !.mx.w = p]
    /\ UNCHANGED mapVars

\* set.go:28-33: m.vals = map[K]struct{}{}
Set_Clear(p) ==
    /\ pc[p] = "Set.Clear"
    /\ set' = [mx |-> [set.mx EXCEPT !.w = NoProc],
               ver |-> set.ver + 1,
               vals |-> Alloc(EmptyMap)]
    /\ Leave(p, [op |-> "Set.Clear"])
    /\ UNCHANGED mapVars

(***************************************************************************)
(* SpecVersion: goroutines call the mutating methods of a Map or of a Set  *)
(* (aux.kind): Set, Delete, Clear, Pop, PopAll and UnmarshalJSON.  aux.pre *)
(* is the version and the map as the call that has just returned found     *)
(* them.                                                                   *)
(***************************************************************************)

\* JSON texts for a Map: no JSON at all, null, and objects of one member
FewJSONMapInputs ==
    {[kind |-> "invalid"], [kind |-> "null"]}
      \cup {[kind |-> "object", members |-> <<mem>>] : mem \in JSONMembers}

\* JSON texts for a Set: no JSON at all, and arrays of one element
FewJSONSetInputs ==
    {[kind |-> "invalid"]}
      \cup {[kind |-> "array", elems |-> <<NumToken(k)>>] : k \in Keys}
      \cup {[kind |-> "array", elems |-> <<StrToken(BadText)>>]}

InitVersion ==
    /\ InitProcs
    /\ ver = 0
    /\ vals = Nil
    /\ set = ZeroSet
    /\ \E kind \in {"Map", "Set"} : aux = [kind |-> kind, pre |-> NoPre]

Found == aux' = [aux EXCEPT !.pre = [ver |-> TheVer, vals |-> TheVals]]
NotFound == aux' = [aux EXCEPT !.pre = NoPre]
CanMutate == TheVer < MaxVer

VerSetLock == \E p \in Procs, k \in Keys, x \in Vals :
    IsMap /\ CanMutate /\ Map_Set_Lock(p, k, x) /\ NotFound
VerSetIsNil == \E p \in Procs : Map_Set_IsNil(p) /\ NotFound
VerSet == \E p \in Procs : Map_Set(p) /\ Found
VerDeleteLock == \E p \in Procs, k \in Keys :
    IsMap /\ CanMutate /\ Map_Delete_Lock(p, k) /\ NotFound
VerDelete == \E p \in Procs :
    /\ Map_Delete(p)
    /\ aux' = [aux EXCEPT !.pre = [ver |-> ver, vals |-> vals, key |-> call[p].key]]
VerClearLock == \E p \in Procs : IsMap /\ CanMutate /\ Map_Clear_Lock(p) /\ NotFound
VerClear == \E p \in Procs : Map_Clear(p) /\ Found
VerPopLock == \E p \in Procs : IsMap /\ CanMutate /\ Map_Pop_Lock(p) /\ NotFound
VerPop == \E p \in Procs : Map_Pop(p) /\ Found
VerPopAllLock == \E p \in Procs : IsMap /\ CanMutate /\ Map_PopAll_Lock(p) /\ NotFound
VerPopAll == \E p \in Procs : Map_PopAll(p) /\ Found
VerUnmarshalJSONLock == \E p \in Procs :
    IsMap /\ CanMutate /\ Map_UnmarshalJSON_Lock(p) /\ NotFound
VerUnmarshalJSON == \E p \in Procs, data \in FewJSONMapInputs :
    Map_UnmarshalJSON(p, data) /\ Found
VerAddLock == \E p \in Procs, k \in Keys :
    IsSet /\ CanMutate /\ Set_Set_Lock(p, k) /\ NotFound
VerAddIsNil == \E p \in Procs : Set_Set_IsNil(p) /\ NotFound
VerAdd == \E p \in Procs : Set_Set(p) /\ Found
VerSetDeleteLock == \E p \in Procs, k \in Keys :
    IsSet /\ CanMutate /\ Set_Delete_Lock(p, k) /\ NotFound
VerSetDelete == \E p \in Procs :
    /\ Set_Delete(p)
    /\ aux' = [aux EXCEPT !.pre = [ver |-> set.ver, vals |-> set.vals, key |-> call[p].key]]
VerSetClearLock == \E p \in Procs : IsSet /\ CanMutate /\ Set_Clear_Lock(p) /\ NotFound
VerSetClear == \E p \in Procs : Set_Clear(p) /\ Found
VerSetPopLock == \E p \in Procs : IsSet /\ CanMutate /\ Set_Pop_Lock(p) /\ NotFound
VerSetPop == \E p \in Procs : Set_Pop(p) /\ Found
VerSetPopAllLock == \E p \in Procs : IsSet /\ CanMutate /\ Set_PopAll_Lock(p) /\ NotFound
VerSetPopAll == \E p \in Procs : Set_PopAll(p) /\ Found
VerSetUnmarshalJSONFail == \E p \in Procs, data \in FewJSONSetInputs :
    IsSet /\ Set_UnmarshalJSON_Fail(p, data) /\ Found
VerSetUnmarshalJSONLock == \E p \in Procs, data \in FewJSONSetInputs :
    IsSet /\ CanMutate /\ Set_UnmarshalJSON_Lock(p, data) /\ NotFound
VerSetUnmarshalJSON == \E p \in Procs : Set_UnmarshalJSON(p) /\ Found

NextVersion ==
    \/ VerSetLock \/ VerSetIsNil \/ VerSet
    \/ VerDeleteLock \/ VerDelete
    \/ VerClearLock \/ VerClear
    \/ VerPopLock \/ VerPop
    \/ VerPopAllLock \/ VerPopAll
    \/ VerUnmarshalJSONLock \/ VerUnmarshalJSON
    \/ VerAddLock \/ VerAddIsNil \/ VerAdd
    \/ VerSetDeleteLock \/ VerSetDelete
    \/ VerSetClearLock \/ VerSetClear
    \/ VerSetPopLock \/ VerSetPop
    \/ VerSetPopAllLock \/ VerSetPopAll
    \/ VerSetUnmarshalJSONFail \/ VerSetUnmarshalJSONLock \/ VerSetUnmarshalJSON

SpecVersion == InitVersion /\ [][NextVersion]_vars

Op == ret.res.op
Raised == TheVer = aux.pre.ver + 1
NotRaised == TheVer = aux.pre.ver
DeleteReturned == Op \in {"Delete", "Set.Delete"}
DecodeReturned == Op \in {"UnmarshalJSON", "Set.UnmarshalJSON"}

\* C13: the version rises by one with each Set, Clear, PopAll, Pop that
\* removes an entry, Delete that removes an entry and decode that succeeds;
\* a Delete of a key that is absent, a Pop that finds nothing and a decode
\* that returns an error leave it as it was.
C13_VersionCountsMutations ==
    /\ Op \in {"Set", "Clear", "PopAll", "Set.Set", "Set.Clear", "Set.PopAll"} => Raised
    /\ Op \in {"Pop", "Set.Pop"} => IF ret.res.key # NoKey THEN Raised ELSE NotRaised
    /\ DeleteReturned =>
          IF aux.pre.key \in DOMAIN Entries(aux.pre.vals) THEN Raised ELSE NotRaised
    /\ DecodeReturned => IF ret.res.err THEN NotRaised ELSE Raised

\* The same without Delete of an absent key and without the decode of a Map
\* that returns an error.
VersionCountsOtherMutations ==
    /\ Op \in {"Set", "Clear", "PopAll", "Set.Set", "Set.Clear", "Set.PopAll"} => Raised
    /\ Op \in {"Pop", "Set.Pop"} => IF ret.res.key # NoKey THEN Raised ELSE NotRaised
    /\ DeleteReturned /\ aux.pre.key \in DOMAIN Entries(aux.pre.vals) => Raised
    /\ DecodeReturned /\ ~ret.res.err => Raised
    /\ Op = "Set.UnmarshalJSON" /\ ret.res.err => NotRaised

\* A Delete of an absent key raises the version of an allocated map, and a
\* decode of a Map raises the version also when it returns an error.
VersionCountsTheseToo ==
    /\ DeleteReturned /\ aux.pre.key \notin DOMAIN Entries(aux.pre.vals) =>
          IF aux.pre.vals # Nil THEN Raised ELSE NotRaised
    /\ Op = "UnmarshalJSON" => Raised

DeleteOnNil == DeleteReturned /\ aux.pre.vals = Nil /\ aux.pre.ver >= 2

-----------------------------------------------------------------------------
(***************************************************************************)
(* Maps and slices as references.  A Go map or slice value is a reference  *)
(* to an object that every holder of the value reads and writes.  Here     *)
(* aux.heap gives the object at each address in use: the entries of a map, *)
(* or the elements of a slice as a sequence; vals is Nil or <<a>> with a   *)
(* the address of the Map's map.  The methods are the ones above, written  *)
(* over the heap, each as one step from Lock or RLock to the return.       *)
(***************************************************************************)

Addrs == {"a1", "a2"}

\* An address not in use
Fresh(h) == CHOOSE a \in Addrs : a \notin DOMAIN h

\* The heap h with the object obj at the address a
HeapWith(h, a, obj) == [b \in DOMAIN h \cup {a} |-> IF b = a THEN obj ELSE h[b]]

\* The heap h without the address a
HeapWithout(h, a) == [b \in DOMAIN h \ {a} |-> h[b]]

\* The map that the reference v refers to, as a value: Nil or <<entries>>
Deref(h, v) == IF v = Nil THEN Nil ELSE Alloc(h[v[1]])

\* A NewMap that keeps the caller's map
HeapNewMap_NoClone(h, m) == [heap |-> h, vals |-> m]

\* NewMap, map.go:23-27: maps.Clone(values) is nil for a nil map, else a new
\* map with the same entries
HeapNewMap(h, m) ==
    IF m = Nil THEN [heap |-> h, vals |-> Nil]
    ELSE [heap |-> HeapWith(h, Fresh(h), h[m[1]]), vals |-> <<Fresh(h)>>]

\* Set, map.go:39-42
HeapSet(h, v, k, x) ==
    IF v = Nil
      THEN [heap |-> HeapWith(h, Fresh(h), Put(EmptyMap, k, x)), vals |-> <<Fresh(h)>>]
      ELSE [heap |-> [h EXCEPT ![v[1]] = Put(@, k, x)], vals |-> v]

\* Delete, map.go:64-65
HeapDelete(h, v, k) == IF v # Nil THEN [h EXCEPT ![v[1]] = Remove(@, k)] ELSE h

\* KeyValues, map.go:121-127: res := map[K]T{} with every entry
HeapKeyValues(h, v) ==
    [heap |-> HeapWith(h, Fresh(h), KeyValuesOf(Deref(h, v))), res |-> <<Fresh(h)>>]

\* Keys, map.go:134 with mapKeys, map.go:259-268: nil, or a new slice of the
\* keys in the order q of the range
HeapKeys(h, v, q) ==
    IF v = Nil THEN [heap |-> h, res |-> Nil]
    ELSE [heap |-> HeapWith(h, Fresh(h), q), res |-> <<Fresh(h)>>]

\* Values, map.go:141-147: a new slice of the values in the order q of the
\* range
HeapValues(h, v, q) ==
    [heap |-> HeapWith(h, Fresh(h), [i \in DOMAIN q |-> Entries(Deref(h, v))[q[i]]]),
     res |-> <<Fresh(h)>>]

\* PopAll, map.go:174: values, m.vals = m.vals, nil
HeapPopAll(h, v) == [heap |-> h, res |-> v, vals |-> Nil]

(***************************************************************************)
(* SpecAlias: a caller makes a Map with NewMap(m) from a map m of its own  *)
(* and then calls Set, Delete, KeyValues, Keys, Values and PopAll.  The    *)
(* caller holds one collection at a time, its m or the last one returned   *)
(* (aux.mine, from the method aux.from), writes into it, and drops it      *)
(* before the next one.  aux.store is what Set, Delete and PopAll have     *)
(* made of the Map's entries, aux.hold what the caller's writes have made  *)
(* of its collection.                                                      *)
(***************************************************************************)

Caller == CHOOSE p \in Procs : TRUE

InitAlias ==
    /\ InitProcs
    /\ ver = 0
    /\ set = ZeroSet
    /\ \/ \E m \in AllMaps :
             /\ vals = HeapNewMap([a \in {Fresh(<<>>)} |-> m], <<Fresh(<<>>)>>).vals
             /\ aux = [heap |-> HeapNewMap([a \in {Fresh(<<>>)} |-> m], <<Fresh(<<>>)>>).heap,
                       mine |-> <<Fresh(<<>>)>>, from |-> "NewMap", wrote |-> FALSE,
                       store |-> m, hold |-> m]
       \/ /\ vals = HeapNewMap(<<>>, Nil).vals
          /\ aux = [heap |-> HeapNewMap(<<>>, Nil).heap,
                    mine |-> Nil, from |-> "none", wrote |-> FALSE,
                    store |-> EmptyMap, hold |-> <<>>]

Returns(r) ==
    /\ ret' = [proc |-> Caller, res |-> r]
    /\ UNCHANGED <<mx, set, pc, call>>

\* The caller takes the collection at res, a reference or Nil
Takes(h, res, method) ==
    aux' = [aux EXCEPT !.heap = h, !.mine = res, !.from = method, !.wrote = FALSE,
                       !.hold = IF res = Nil THEN <<>> ELSE h[res[1]]]

AliasSet == \E k \in Keys, x \in Vals :
    /\ ver < MaxVer
    /\ vals' = HeapSet(aux.heap, vals, k, x).vals
    /\ ver' = SetVer(ver)
    /\ aux' = [aux EXCEPT !.heap = HeapSet(aux.heap, vals, k, x).heap,
                          !.store = Put(@, k, x)]
    /\ Returns([op |-> "Set"])

AliasDelete == \E k \in Keys :
    /\ ver < MaxVer
    /\ vals' = vals
    /\ ver' = DeleteVer(vals, ver)
    /\ aux' = [aux EXCEPT !.heap = HeapDelete(aux.heap, vals, k),
                          !.store = Remove(@, k)]
    /\ Returns([op |-> "Delete"])

AliasPopAll ==
    /\ ver < MaxVer
    /\ aux.mine = Nil
    /\ vals' = HeapPopAll(aux.heap, vals).vals
    /\ ver' = ver + 1
    /\ aux' = [aux EXCEPT !.mine = HeapPopAll(aux.heap, vals).res,
                          !.from = "PopAll", !.wrote = FALSE,
                          !.store = EmptyMap,
                          !.hold = Entries(Deref(aux.heap, vals))]
    /\ Returns([op |-> "PopAll"])

AliasKeyValues ==
    /\ aux.mine = Nil
    /\ Takes(HeapKeyValues(aux.heap, vals).heap, HeapKeyValues(aux.heap, vals).res,
             "KeyValues")
    /\ Returns([op |-> "KeyValues"])
    /\ UNCHANGED <<ver, vals>>

AliasKeys == \E q \in SeqsOf(DOMAIN Entries(Deref(aux.heap, vals))) :
    /\ aux.mine = Nil
    /\ Takes(HeapKeys(aux.heap, vals, q).heap, HeapKeys(aux.heap, vals, q).res, "Keys")
    /\ Returns([op |-> "Keys"])
    /\ UNCHANGED <<ver, vals>>

AliasValues == \E q \in SeqsOf(DOMAIN Entries(Deref(aux.heap, vals))) :
    /\ aux.mine = Nil
    /\ Takes(HeapValues(aux.heap, vals, q).heap, HeapValues(aux.heap, vals, q).res,
             "Values")
    /\ Returns([op |-> "Values"])
    /\ UNCHANGED <<ver, vals>>

\* The caller writes m[k] = x into the map it holds
CallerPut == \E k \in Keys, x \in Vals :
    /\ aux.mine # Nil /\ aux.from \in {"NewMap", "KeyValues", "PopAll"}
    /\ aux' = [aux EXCEPT !.heap[aux.mine[1]] = Put(@, k, x),
                          !.hold = Put(@, k, x), !.wrote = TRUE]
    /\ Returns([op |-> "m[k] = x"])
    /\ UNCHANGED <<ver, vals>>

\* The caller executes delete(m, k) on the map it holds
CallerDelete == \E k \in Keys :
    /\ aux.mine # Nil /\ aux.from \in {"NewMap", "KeyValues", "PopAll"}
    /\ aux' = [aux EXCEPT !.heap[aux.mine[1]] = Remove(@, k),
                          !.hold = Remove(@, k), !.wrote = TRUE]
    /\ Returns([op |-> "delete(m, k)"])
    /\ UNCHANGED <<ver, vals>>

\* The caller writes s[i] = s[j] into the slice it holds
CallerStore ==
    /\ aux.mine # Nil /\ aux.from \in {"Keys", "Values"}
    /\ \E i, j \in DOMAIN aux.hold :
          aux' = [aux EXCEPT !.heap[aux.mine[1]] = [@ EXCEPT ![i] = aux.heap[aux.mine[1]][j]],
                             !.hold = [@ EXCEPT ![i] = aux.hold[j]], !.wrote = TRUE]
    /\ Returns([op |-> "s[i] = s[j]"])
    /\ UNCHANGED <<ver, vals>>

\* The caller drops its collection, and what nobody refers to is freed
CallerDrop ==
    /\ aux.mine # Nil
    /\ aux' = [aux EXCEPT !.heap = IF vals = aux.mine THEN @ ELSE HeapWithout(@, aux.mine[1]),
                          !.mine = Nil, !.from = "none", !.wrote = FALSE,
                          !.hold = <<>>]
    /\ Returns([op |-> "drop"])
    /\ UNCHANGED <<ver, vals>>

NextAlias ==
    \/ AliasSet \/ AliasDelete \/ AliasPopAll
    \/ AliasKeyValues \/ AliasKeys \/ AliasValues
    \/ CallerPut \/ CallerDelete \/ CallerStore \/ CallerDrop

SpecAlias == InitAlias /\ [][NextAlias]_vars

\* C15: the entries of the Map, and so the results of Get, Exists and Len,
\* are what Set, Delete and PopAll have made of them, whatever the caller
\* wrote into the map it gave to NewMap or into a collection returned by
\* KeyValues, Keys, Values or PopAll; and the caller's collection holds what
\* the caller's own writes have made of it, whatever the Map did since.
C15_NoSharing ==
    /\ Entries(Deref(aux.heap, vals)) = aux.store
    /\ \A k \in Keys :
          /\ GetVal(Deref(aux.heap, vals), k) = GetVal(Alloc(aux.store), k)
          /\ ExistsKey(Deref(aux.heap, vals), k) = (k \in DOMAIN aux.store)
    /\ LenVals(Deref(aux.heap, vals)) = Cardinality(DOMAIN aux.store)
    /\ aux.mine # Nil => aux.heap[aux.mine[1]] = aux.hold

\* The caller has written into the map PopAll returned, and the Map has been
\* written since; both hold entries, and different ones.
C15_Witness ==
    /\ aux.from = "PopAll" /\ aux.wrote
    /\ aux.store # EmptyMap /\ aux.hold # EmptyMap
    /\ aux.store # aux.hold
    /\ ret.res.op = "Set"

\* The caller has written into the map it gave to NewMap.
WroteIntoOriginal == aux.from = "NewMap" /\ aux.wrote /\ aux.store # aux.hold

-----------------------------------------------------------------------------
(***************************************************************************)
(* SpecLockstep: one goroutine runs a sequence of Clear, Set, Delete, Pop  *)
(* and PopAll on a Map[K, struct{}] and on a Set[K], both starting as zero *)
(* values: each operation first on the Map, then, with the same key, on    *)
(* the Set (aux.turn).  Where Pop may take any key, the Set's Pop takes    *)
(* the key the Map's Pop took (aux.key).                                   *)
(***************************************************************************)

InitLockstep ==
    /\ mx = Unlocked
    /\ ver = 0
    /\ vals = Nil
    /\ set = ZeroSet
    /\ pc = [p \in SeqProcs |-> "idle"]
    /\ call = [p \in SeqProcs |-> NoCall]
    /\ ret = NoRet
    /\ aux = [turn |-> "Map", op |-> "none", key |-> NoKey]

MapTurn(op) ==
    /\ aux.turn = "Map" /\ ver < MaxVer /\ set.ver < MaxVer
    /\ aux' = [aux EXCEPT !.op = op]
MapDone(k) == aux' = [aux EXCEPT !.turn = "Set", !.key = k]
SetTurn(op) == aux.turn = "Set" /\ aux.op = op /\ UNCHANGED aux
SetDone == aux' = [turn |-> "Map", op |-> "none", key |-> NoKey]

LsSetLock == \E k \in Keys : Map_Set_Lock(SeqProc, k, Unit) /\ MapTurn("Set")
LsSetIsNil == Map_Set_IsNil(SeqProc) /\ UNCHANGED aux
LsSet == Map_Set(SeqProc) /\ MapDone(call[SeqProc].key)
LsAddLock == Set_Set_Lock(SeqProc, aux.key) /\ SetTurn("Set")
LsAddIsNil == Set_Set_IsNil(SeqProc) /\ UNCHANGED aux
LsAdd == Set_Set(SeqProc) /\ SetDone
LsDeleteLock == \E k \in Keys : Map_Delete_Lock(SeqProc, k) /\ MapTurn("Delete")
LsDelete == Map_Delete(SeqProc) /\ MapDone(call[SeqProc].key)
LsSetDeleteLock == Set_Delete_Lock(SeqProc, aux.key) /\ SetTurn("Delete")
LsSetDelete == Set_Delete(SeqProc) /\ SetDone
LsClearLock == Map_Clear_Lock(SeqProc) /\ MapTurn("Clear")
LsClear == Map_Clear(SeqProc) /\ MapDone(NoKey)
LsSetClearLock == Set_Clear_Lock(SeqProc) /\ SetTurn("Clear")
LsSetClear == Set_Clear(SeqProc) /\ SetDone
LsPopLock == Map_Pop_Lock(SeqProc) /\ MapTurn("Pop")
LsPop == Map_Pop(SeqProc) /\ MapDone(ret'.res.key)
LsSetPopLock == Set_Pop_Lock(SeqProc) /\ SetTurn("Pop")
LsSetPop ==
    /\ Set_Pop(SeqProc)
    /\ ret'.res.key = aux.key \/ aux.key \notin DOMAIN Entries(set.vals)
    /\ SetDone
LsPopAllLock == Map_PopAll_Lock(SeqProc) /\ MapTurn("PopAll")
LsPopAll == Map_PopAll(SeqProc) /\ MapDone(NoKey)
LsSetPopAllLock == Set_PopAll_Lock(SeqProc) /\ SetTurn("PopAll")
LsSetPopAll == Set_PopAll(SeqProc) /\ SetDone

NextLockstep ==
    \/ LsSetLock \/ LsSetIsNil \/ LsSet \/ LsAddLock \/ LsAddIsNil \/ LsAdd
    \/ LsDeleteLock \/ LsDelete \/ LsSetDeleteLock \/ LsSetDelete
    \/ LsClearLock \/ LsClear \/ LsSetClearLock \/ LsSetClear
    \/ LsPopLock \/ LsPop \/ LsSetPopLock \/ LsSetPop
    \/ LsPopAllLock \/ LsPopAll \/ LsSetPopAllLock \/ LsSetPopAll

SpecLockstep == InitLockstep /\ [][NextLockstep]_vars

\* Both have finished the same operations.
InStep == aux.turn = "Map" /\ aux.op = "none"

\* C16: after the same operations the Set and the Map hold the same keys,
\* give the same Size and Len and the same result of Exists for every key,
\* and give the same Version.
C16_SetRefinesMap ==
    InStep =>
      /\ DOMAIN Entries(set.vals) = DOMAIN Entries(vals)
      /\ LenVals(set.vals) = LenVals(vals)
      /\ \A k \in Keys : ExistsKey(set.vals, k) = ExistsKey(vals, k)
      /\ set.ver = ver

\* The same without Version.
SetRefinesMapButVersion ==
    InStep =>
      /\ DOMAIN Entries(set.vals) = DOMAIN Entries(vals)
      /\ LenVals(set.vals) = LenVals(vals)
      /\ \A k \in Keys : ExistsKey(set.vals, k) = ExistsKey(vals, k)

\* The Set's version is never behind the Map's: after a Clear the Map's map
\* is nil and the Set's an allocated map, and Delete counts on the Set alone.
SetVersionNotBehind == InStep => set.ver >= ver

-----------------------------------------------------------------------------
(* String and Strings *)

\* encString, map.go:247-257, for an int: neither a string nor a
\* fmt.Stringer, so the text json.Marshal gives
encString(v) == FormatInt(v)

\* encString for a []string: the JSON array of the strings
encStrings(ss) == [kind |-> "array", elems |-> [i \in DOMAIN ss |-> StrToken(ss[i])]]

\* encString for a map[K]T, map.go:153: json.Marshal gives null for a nil map
encMap(v) == IF v = Nil THEN [kind |-> "null"] ELSE JSONMarshalMap(v[1])

\* set.go:90-92: for k := range vv ranges over the indexes 0..len(vv)-1 of
\* the slice vv, and each k is encoded
StringsOf(vv) == [i \in DOMAIN Entries(vv) |-> encString(i - 1)]

\* set.go:89: len(m.vals) is read without the lock.  While another goroutine
\* holds the lock to write, the read races with the write and may give any
\* length; the length only sizes the new slice.
Set_Strings_Len(p, outer) ==
    /\ pc[p] = "idle"
    /\ pc' = [pc EXCEPT ![p] = "Set.Strings"]
    /\ \E cap \in IF set.mx.w = NoProc THEN {LenVals(set.vals)} ELSE 0..NumKeys :
          call' = [call EXCEPT ![p] = [key |-> NoKey, val |-> cap, isnil |-> FALSE,
                                       outer |-> outer]]
    /\ ret' = NoRet
    /\ UNCHANGED <<mapVars, set>>

\* set.go:90 with Values, set.go:78-80
Set_Strings_Values_RLock(p) ==
    /\ pc[p] = "Set.Strings"
    /\ SetCanRLock
    /\ pc' = [pc EXCEPT ![p] = "Set.Values"]
    /\ set' = [set EXCEPT !.mx.r = @ \cup {p}]
    /\ ret' = NoRet
    /\ UNCHANGED <<mapVars, call>>

\* set.go:81 and 90-93; for String also set.go:85
Set_Strings(p) ==
    /\ pc[p] = "Set.Values"
    /\ \E vv \in mapKeys(set.vals) :
          Leave(p, IF call[p].outer = "String"
                     THEN [op |-> "Set.String", text |-> encStrings(StringsOf(vv))]
                     ELSE [op |-> "Set.Strings", ss |-> StringsOf(vv)])
    /\ set' = [set EXCEPT !.mx.r = @ \ {p}]
    /\ UNCHANGED mapVars

Map_String_RLock(p) ==
    /\ CanRLock
    /\ Enter(p, "String", NoKey, Zero)
    /\ mx' = RLock(p)
    /\ UNCHANGED <<ver, vals>>
    /\ UNCHANGED set

\* map.go:150-154
Map_String(p) ==
    /\ pc[p] = "String"
    /\ mx' = RUnlock(p)
    /\ Leave(p, [op |-> "String", text |-> encMap(vals)])
    /\ UNCHANGED <<ver, vals>>
    /\ UNCHANGED set

(***************************************************************************)
(* SpecStrings: goroutines call Set, Delete, String and, on a Set,         *)
(* Strings, on a Map or on a Set (aux.kind).  aux.access says of the step  *)
(* just taken whether it read or wrote the fields ver and vals, whether    *)
(* the goroutine held the lock then (shared or exclusive for a read,       *)
(* exclusive for a write), and whether another goroutine held it           *)
(* exclusively.                                                            *)
(***************************************************************************)

NoAccess == [proc |-> NoProc, mode |-> "none", locked |-> TRUE, writing |-> FALSE]

InitStrings ==
    /\ InitProcs
    /\ ver = 0
    /\ vals = Nil
    /\ set = ZeroSet
    /\ \E kind \in {"Map", "Set"} : aux = [kind |-> kind, access |-> NoAccess]

TheMx == IF IsMap THEN mx ELSE set.mx

Accesses(a) == aux' = [aux EXCEPT !.access = a]
Reads(p) == Accesses([proc |-> p, mode |-> "read", locked |-> p \in TheMx.r \/ TheMx.w = p,
                      writing |-> TheMx.w \notin {NoProc, p}])
Writes(p) == Accesses([proc |-> p, mode |-> "write", locked |-> TheMx.w = p,
                       writing |-> TheMx.w \notin {NoProc, p}])

StrSetLock == \E p \in Procs, k \in Keys, x \in Vals :
    IsMap /\ CanMutate /\ Map_Set_Lock(p, k, x) /\ Accesses(NoAccess)
StrSetIsNil == \E p \in Procs : Map_Set_IsNil(p) /\ Reads(p)
StrSet == \E p \in Procs : Map_Set(p) /\ Writes(p)
StrDeleteLock == \E p \in Procs, k \in Keys :
    IsMap /\ CanMutate /\ Map_Delete_Lock(p, k) /\ Accesses(NoAccess)
StrDelete == \E p \in Procs : Map_Delete(p) /\ Writes(p)
StrStringRLock == \E p \in Procs : IsMap /\ Map_String_RLock(p) /\ Accesses(NoAccess)
StrString == \E p \in Procs : Map_String(p) /\ Reads(p)
StrAddLock == \E p \in Procs, k \in Keys :
    IsSet /\ CanMutate /\ Set_Set_Lock(p, k) /\ Accesses(NoAccess)
StrAddIsNil == \E p \in Procs : Set_Set_IsNil(p) /\ Reads(p)
StrAdd == \E p \in Procs : Set_Set(p) /\ Writes(p)
StrSetDeleteLock == \E p \in Procs, k \in Keys :
    IsSet /\ CanMutate /\ Set_Delete_Lock(p, k) /\ Accesses(NoAccess)
StrSetDelete == \E p \in Procs : Set_Delete(p) /\ Writes(p)
StrStringsLen == \E p \in Procs, outer \in {"Strings", "String"} :
    IsSet /\ Set_Strings_Len(p, outer) /\ Reads(p)
StrStringsRLock == \E p \in Procs : Set_Strings_Values_RLock(p) /\ Accesses(NoAccess)
StrStrings == \E p \in Procs : Set_Strings(p) /\ Reads(p)

NextStrings ==
    \/ StrSetLock \/ StrSetIsNil \/ StrSet
    \/ StrDeleteLock \/ StrDelete
    \/ StrStringRLock \/ StrString
    \/ StrAddLock \/ StrAddIsNil \/ StrAdd
    \/ StrSetDeleteLock \/ StrSetDelete
    \/ StrStringsLen \/ StrStringsRLock \/ StrStrings

SpecStrings == InitStrings /\ [][NextStrings]_vars

\* The strings of the members of the Set
MemberStrings == {encString(k) : k \in DOMAIN Entries(set.vals)}

\* C17: Strings returns one string for each member of the Set, the encoding
\* of that member, and String returns the JSON array of these strings.
C17_StringsEncodeMembers ==
    /\ ret.res.op = "Set.Strings" =>
          /\ Len(ret.res.ss) = Cardinality(DOMAIN Entries(set.vals))
          /\ {ret.res.ss[i] : i \in DOMAIN ret.res.ss} = MemberStrings
    /\ ret.res.op = "Set.String" =>
          /\ ret.res.text.kind = "array"
          /\ Len(ret.res.text.elems) = Cardinality(DOMAIN Entries(set.vals))
          /\ {ret.res.text.elems[i] : i \in DOMAIN ret.res.text.elems}
                = {StrToken(t) : t \in MemberStrings}

\* What Strings returns: as many strings as the Set has members, the i-th
\* being the encoding of the index i - 1; String returns their JSON array.
StringsEncodeIndexes ==
    /\ ret.res.op = "Set.Strings" =>
          /\ Len(ret.res.ss) = Cardinality(DOMAIN Entries(set.vals))
          /\ \A i \in DOMAIN ret.res.ss : ret.res.ss[i] = FormatInt(i - 1)
    /\ ret.res.op = "Set.String" =>
          /\ ret.res.text.kind = "array"
          /\ Len(ret.res.text.elems) = Cardinality(DOMAIN Entries(set.vals))
          /\ \A i \in DOMAIN ret.res.text.elems :
                ret.res.text.elems[i] = StrToken(FormatInt(i - 1))

\* C18: every step that reads ver or vals is taken by a goroutine that holds
\* the lock, shared or exclusive, every step that writes them by one that
\* holds it exclusively, and none while another goroutine holds the lock
\* exclusively.
C18_LockDiscipline == aux.access.locked /\ ~aux.access.writing

\* The same for every step but the read of len(m.vals) in Set.Strings.
LockDisciplineButStrings ==
    \/ aux.access.locked /\ ~aux.access.writing
    \/ pc[aux.access.proc] = "Set.Strings"

\* Strings has read len(m.vals) while another goroutine was inside Set,
\* between its test of m.vals and its write.
RacingRead ==
    /\ aux.access.mode = "read" /\ aux.access.writing
    /\ \E q \in Procs : pc[q] = "Set.Set_write"

-----------------------------------------------------------------------------
(***************************************************************************)
(* SpecSetDecode: goroutines call Set, Delete, UnmarshalJSON and           *)
(* BinaryDecode on a Set.  aux.pre is the version and the map as the call  *)
(* that has just returned found them, aux.D the mapping that the input of  *)
(* the decode holding the lock encodes.                                    *)
(***************************************************************************)

\* gob streams for a Set: no gob at all, and slices of one element
FewGobSetInputs ==
    {[kind |-> "invalid"]} \cup {[kind |-> "slice", elems |-> <<k>>] : k \in Keys}

InitSetDecode ==
    /\ InitProcs
    /\ ver = 0
    /\ vals = Nil
    /\ set = ZeroSet
    /\ aux = [kind |-> "Set", pre |-> NoPre, D |-> EmptyMap]

Encodes(data) == aux' = [aux EXCEPT !.pre = NoPre, !.D = MappingOf(data)]

SdAddLock == \E p \in Procs, k \in Keys :
    CanMutate /\ Set_Set_Lock(p, k) /\ NotFound
SdAddIsNil == \E p \in Procs : Set_Set_IsNil(p) /\ NotFound
SdAdd == \E p \in Procs : Set_Set(p) /\ Found
SdDeleteLock == \E p \in Procs, k \in Keys :
    CanMutate /\ Set_Delete_Lock(p, k) /\ NotFound
SdDelete == \E p \in Procs : Set_Delete(p) /\ Found
SdUnmarshalJSONFail == \E p \in Procs, data \in FewJSONSetInputs :
    Set_UnmarshalJSON_Fail(p, data) /\ Found
SdUnmarshalJSONLock == \E p \in Procs, data \in FewJSONSetInputs :
    CanMutate /\ Set_UnmarshalJSON_Lock(p, data) /\ Encodes(data)
SdUnmarshalJSON == \E p \in Procs : Set_UnmarshalJSON(p) /\ Found
SdBinaryDecodeFail == \E p \in Procs, data \in FewGobSetInputs :
    Set_BinaryDecode_Fail(p, data) /\ Found
SdBinaryDecodeLock == \E p \in Procs, data \in FewGobSetInputs :
    CanMutate /\ Set_BinaryDecode_Lock(p, data) /\ Encodes(data)
SdBinaryDecode == \E p \in Procs : Set_BinaryDecode(p) /\ Found

NextSetDecode ==
    \/ SdAddLock \/ SdAddIsNil \/ SdAdd
    \/ SdDeleteLock \/ SdDelete
    \/ SdUnmarshalJSONFail \/ SdUnmarshalJSONLock \/ SdUnmarshalJSON
    \/ SdBinaryDecodeFail \/ SdBinaryDecodeLock \/ SdBinaryDecode

SpecSetDecode == InitSetDecode /\ [][NextSetDecode]_vars

\* C19: when UnmarshalJSON or BinaryDecode of a Set returns an error, the
\* Set's map and version are what they were before the call; when it
\* returns none, the map holds the members the input encodes and the
\* version is one more, both from the same step.
C19_FailedSetDecode ==
    Op \in {"Set.UnmarshalJSON", "Set.BinaryDecode"} =>
      IF ret.res.err
        THEN set.vals = aux.pre.vals /\ set.ver = aux.pre.ver
        ELSE Entries(set.vals) = aux.D /\ set.ver = aux.pre.ver + 1

\* A decode of a Set with members has returned an error while another
\* goroutine holds the lock inside Set.
C19_Witness ==
    /\ Op \in {"Set.UnmarshalJSON", "Set.BinaryDecode"} /\ ret.res.err
    /\ Entries(set.vals) # EmptyMap
    /\ \E q \in Procs : pc[q] = "Set.Set_write" /\ set.mx.w = q

\* Whenever the map of the Set changes, the version rises by one in the
\* same step.
SetChangesTogether ==
    [][set'.vals # set.vals => set'.ver = set.ver + 1]_vars

-----------------------------------------------------------------------------
(* The remaining methods that only read *)

Map_Keys_RLock(p) ==
    /\ CanRLock
    /\ Enter(p, "Keys", NoKey, Zero)
    /\ mx' = RLock(p)
    /\ UNCHANGED <<ver, vals>>
    /\ UNCHANGED set

\* map.go:130-135: the keys in the order the range over the map gives
Map_Keys(p) ==
    /\ pc[p] = "Keys"
    /\ mx' = RUnlock(p)
    /\ \E vv \in mapKeys(vals) : Leave(p, [op |-> "Keys", vv |-> vv])
    /\ UNCHANGED <<ver, vals>>
    /\ UNCHANGED set

Map_Values_RLock(p) ==
    /\ CanRLock
    /\ Enter(p, "Values", NoKey, Zero)
    /\ mx' = RLock(p)
    /\ UNCHANGED <<ver, vals>>
    /\ UNCHANGED set

\* map.go:137-148: a slice, never nil, of the values in the order the range
\* over the map gives
Map_Values(p) ==
    /\ pc[p] = "Values"
    /\ mx' = RUnlock(p)
    /\ \E q \in SeqsOf(DOMAIN Entries(vals)) :
          Leave(p, [op |-> "Values", vv |-> [i \in DOMAIN q |-> Entries(vals)[q[i]]]])
    /\ UNCHANGED <<ver, vals>>
    /\ UNCHANGED set

Map_BinaryEncode_RLock(p) ==
    /\ CanRLock
    /\ Enter(p, "BinaryEncode", NoKey, Zero)
    /\ mx' = RLock(p)
    /\ UNCHANGED <<ver, vals>>
    /\ UNCHANGED set

\* map.go:230-235: gob writes the pairs in the order the range over the map
\* gives; a nil map is written as a map without pairs
Map_BinaryEncode(p) ==
    /\ pc[p] = "BinaryEncode"
    /\ mx' = RUnlock(p)
    /\ \E q \in SeqsOf(DOMAIN Entries(vals)) :
          Leave(p, [op |-> "BinaryEncode",
                    data |-> [kind |-> "map",
                              pairs |-> [i \in DOMAIN q |-> <<q[i], Entries(vals)[q[i]]>>]],
                    err |-> FALSE])
    /\ UNCHANGED <<ver, vals>>
    /\ UNCHANGED set

Set_Exists_RLock(p, k) ==
    /\ SetCanRLock
    /\ Enter(p, "Set.Exists", k, Zero)
    /\ set' = [set EXCEPT !.mx.r = @ \cup {p}]
    /\ UNCHANGED mapVars

\* set.go:55-64
Set_Exists(p) ==
    /\ pc[p] = "Set.Exists"
    /\ set' = [set EXCEPT !.mx.r = @ \ {p}]
    /\ Leave(p, [op |-> "Set.Exists", key |-> call[p].key,
                 ok |-> ExistsKey(set.vals, call[p].key)])
    /\ UNCHANGED mapVars

Set_Size_RLock(p) ==
    /\ SetCanRLock
    /\ Enter(p, "Set.Size", NoKey, Zero)
    /\ set' = [set EXCEPT !.mx.r = @ \cup {p}]
    /\ UNCHANGED mapVars

\* set.go:66-70
Set_Size(p) ==
    /\ pc[p] = "Set.Size"
    /\ set' = [set EXCEPT !.mx.r = @ \ {p}]
    /\ Leave(p, [op |-> "Set.Size", len |-> LenVals(set.vals)])
    /\ UNCHANGED mapVars

Set_Version_RLock(p) ==
    /\ SetCanRLock
    /\ Enter(p, "Set.Version", NoKey, Zero)
    /\ set' = [set EXCEPT !.mx.r = @ \cup {p}]
    /\ UNCHANGED mapVars

\* set.go:72-76
Set_Version(p) ==
    /\ pc[p] = "Set.Version"
    /\ set' = [set EXCEPT !.mx.r = @ \ {p}]
    /\ Leave(p, [op |-> "Set.Version", ver |-> set.ver])
    /\ UNCHANGED mapVars

\* Values, called by the program (outer = "none") or by MarshalJSON,
\* set.go:136, or BinaryEncode, set.go:151, which take no lock themselves
Set_Values_RLock(p, outer) ==
    /\ SetCanRLock
    /\ pc[p] = "idle"
    /\ pc' = [pc EXCEPT ![p] = "Set.Values_call"]
    /\ call' = [call EXCEPT ![p] = [NoCall EXCEPT !.outer = outer]]
    /\ ret' = NoRet
    /\ set' = [set EXCEPT !.mx.r = @ \cup {p}]
    /\ UNCHANGED mapVars

\* set.go:78-82, and the encoding of the slice by the caller: json.Marshal
\* gives null for a nil slice, gob writes it as a slice without elements
Set_Values(p) ==
    /\ pc[p] = "Set.Values_call"
    /\ set' = [set EXCEPT !.mx.r = @ \ {p}]
    /\ \E vv \in mapKeys(set.vals) :
          Leave(p, CASE call[p].outer = "MarshalJSON" ->
                          [op |-> "Set.MarshalJSON",
                           data |-> IF vv = Nil THEN [kind |-> "null"]
                                    ELSE [kind |-> "array",
                                          elems |-> [i \in DOMAIN vv[1] |-> NumToken(vv[1][i])]],
                           err |-> FALSE]
                     [] call[p].outer = "BinaryEncode" ->
                          [op |-> "Set.BinaryEncode",
                           data |-> [kind |-> "slice", elems |-> Entries(vv)],
                           err |-> FALSE]
                     [] OTHER -> [op |-> "Set.Values", vv |-> vv])
    /\ UNCHANGED mapVars

(***************************************************************************)
(* SpecReads: one goroutine, Reader, calls the methods that only read, and *)
(* on a Map also GetOrSet; the other goroutines call Set and Delete.  The  *)
(* store is a Map or a Set (aux.kind).  aux.since holds the version and    *)
(* the map that the store had when Version last returned, and whether     *)
(* another method that only reads (reads) and a GetOrSet that found its    *)
(* key (hit) have returned since; it is NoSince once a call that is        *)
(* neither has begun.  aux.prev is aux.since as it was when the Version    *)
(* that has just returned began to return.                                 *)
(***************************************************************************)

Reader == CHOOSE p \in Procs : TRUE
Writers == Procs \ {Reader}

NoSince == [ver |-> -1, vals |-> Nil, reads |-> FALSE, hit |-> FALSE]

InitReads ==
    /\ InitProcs
    /\ ver = 0
    /\ vals = Nil
    /\ set = ZeroSet
    /\ \E kind \in {"Map", "Set"} : aux = [kind |-> kind, since |-> NoSince, prev |-> NoSince]

\* A step of a method that only reads, other than a return
Reading == aux' = [aux EXCEPT !.prev = NoSince]
\* The return of a method that only reads, other than Version
HasRead ==
    aux' = [aux EXCEPT !.prev = NoSince,
                       !.since = IF @.ver >= 0 THEN [@ EXCEPT !.reads = TRUE] ELSE @]
\* The return of Version
HasReadVersion ==
    aux' = [aux EXCEPT !.prev = aux.since,
                       !.since = [ver |-> TheVer, vals |-> TheVals,
                                  reads |-> FALSE, hit |-> FALSE]]
\* A step of Set or Delete
Writing == aux' = [aux EXCEPT !.prev = NoSince, !.since = NoSince]

RoGetRLock == \E k \in Keys : IsMap /\ Map_Get_RLock(Reader, k) /\ Reading
RoGet == Map_Get(Reader) /\ HasRead
RoExistsRLock == \E k \in Keys : IsMap /\ Map_Exists_RLock(Reader, k) /\ Reading
RoExists == Map_Exists(Reader) /\ HasRead
RoLenRLock == IsMap /\ Map_Len_RLock(Reader) /\ Reading
RoLen == Map_Len(Reader) /\ HasRead
RoVersionRLock == IsMap /\ Map_Version_RLock(Reader) /\ Reading
RoVersion == Map_Version(Reader) /\ HasReadVersion
RoKeyValuesRLock == IsMap /\ Map_KeyValues_RLock(Reader) /\ Reading
RoKeyValues == Map_KeyValues(Reader) /\ HasRead
RoKeysRLock == IsMap /\ Map_Keys_RLock(Reader) /\ Reading
RoKeys == Map_Keys(Reader) /\ HasRead
RoValuesRLock == IsMap /\ Map_Values_RLock(Reader) /\ Reading
RoValues == Map_Values(Reader) /\ HasRead
RoRandomRLock == IsMap /\ Map_Random_RLock(Reader) /\ Reading
RoRandomLen == Map_Random_Len(Reader) /\ IF pc'[Reader] = "idle" THEN HasRead ELSE Reading
RoRandomScan == Map_Random_Scan(Reader) /\ HasRead
RoStringRLock == IsMap /\ Map_String_RLock(Reader) /\ Reading
RoString == Map_String(Reader) /\ HasRead
RoMarshalJSONRLock == IsMap /\ Map_MarshalJSON_RLock(Reader) /\ Reading
RoMarshalJSON == Map_MarshalJSON(Reader) /\ HasRead
RoBinaryEncodeRLock == IsMap /\ Map_BinaryEncode_RLock(Reader) /\ Reading
RoBinaryEncode == Map_BinaryEncode(Reader) /\ HasRead

\* GetOrSet of a key that the map holds when it is looked up counts as a
\* hit; of any other key, as a call that may write
RoGetOrSetRLock == \E k \in Keys :
    IsMap /\ CanMutate /\ Map_GetOrSet_RLock(Reader, k) /\ Reading
RoGetOrSetCheck ==
    /\ Map_GetOrSet_Check(Reader)
    /\ IF call[Reader].key \in DOMAIN Entries(vals)
         THEN aux' = [aux EXCEPT !.prev = NoSince,
                                 !.since = IF @.ver >= 0 THEN [@ EXCEPT !.hit = TRUE] ELSE @]
         ELSE Writing
RoGetOrSetFnReturn == \E x \in Vals : Map_GetOrSet_FnReturn(Reader, x) /\ Reading
RoGetOrSetSetLock == Map_GetOrSet_Set_Lock(Reader) /\ Reading
RoGetOrSetSetIsNil == Map_Set_IsNil(Reader) /\ Reading
RoGetOrSetSet == Map_Set(Reader) /\ Reading

RoSetExistsRLock == \E k \in Keys : IsSet /\ Set_Exists_RLock(Reader, k) /\ Reading
RoSetExists == Set_Exists(Reader) /\ HasRead
RoSetSizeRLock == IsSet /\ Set_Size_RLock(Reader) /\ Reading
RoSetSize == Set_Size(Reader) /\ HasRead
RoSetVersionRLock == IsSet /\ Set_Version_RLock(Reader) /\ Reading
RoSetVersion == Set_Version(Reader) /\ HasReadVersion
RoSetValuesRLock == \E outer \in {"none", "MarshalJSON", "BinaryEncode"} :
    IsSet /\ Set_Values_RLock(Reader, outer) /\ Reading
RoSetValues == Set_Values(Reader) /\ HasRead
RoSetRandomRLock == IsSet /\ Set_Random_RLock(Reader) /\ Reading
RoSetRandomLen == Set_Random_Len(Reader) /\ IF pc'[Reader] = "idle" THEN HasRead ELSE Reading
RoSetRandomScan == Set_Random_Scan(Reader) /\ HasRead
RoSetStringsLen == \E outer \in {"none", "String"} :
    IsSet /\ Set_Strings_Len(Reader, outer) /\ Reading
RoSetStringsValuesRLock == Set_Strings_Values_RLock(Reader) /\ Reading
RoSetStrings == Set_Strings(Reader) /\ HasRead

RoSetLock == \E p \in Writers, k \in Keys, x \in Vals :
    IsMap /\ CanMutate /\ Map_Set_Lock(p, k, x) /\ Writing
RoSetIsNil == \E p \in Writers : Map_Set_IsNil(p) /\ Writing
RoSet == \E p \in Writers : Map_Set(p) /\ Writing
RoDeleteLock == \E p \in Writers, k \in Keys :
    IsMap /\ CanMutate /\ Map_Delete_Lock(p, k) /\ Writing
RoDelete == \E p \in Writers : Map_Delete(p) /\ Writing
RoAddLock == \E p \in Writers, k \in Keys :
    IsSet /\ CanMutate /\ Set_Set_Lock(p, k) /\ Writing
RoAddIsNil == \E p \in Writers : Set_Set_IsNil(p) /\ Writing
RoAdd == \E p \in Writers : Set_Set(p) /\ Writing
RoSetDeleteLock == \E p \in Writers, k \in Keys :
    IsSet /\ CanMutate /\ Set_Delete_Lock(p, k) /\ Writing
RoSetDelete == \E p \in Writers : Set_Delete(p) /\ Writing

NextReads ==
    \/ RoGetRLock \/ RoGet
    \/ RoExistsRLock \/ RoExists
    \/ RoLenRLock \/ RoLen
    \/ RoVersionRLock \/ RoVersion
    \/ RoKeyValuesRLock \/ RoKeyValues
    \/ RoKeysRLock \/ RoKeys
    \/ RoValuesRLock \/ RoValues
    \/ RoRandomRLock \/ RoRandomLen \/ RoRandomScan
    \/ RoStringRLock \/ RoString
    \/ RoMarshalJSONRLock \/ RoMarshalJSON
    \/ RoBinaryEncodeRLock \/ RoBinaryEncode
    \/ RoGetOrSetRLock \/ RoGetOrSetCheck \/ RoGetOrSetFnReturn
    \/ RoGetOrSetSetLock \/ RoGetOrSetSetIsNil \/ RoGetOrSetSet
    \/ RoSetExistsRLock \/ RoSetExists
    \/ RoSetSizeRLock \/ RoSetSize
    \/ RoSetVersionRLock \/ RoSetVersion
    \/ RoSetValuesRLock \/ RoSetValues
    \/ RoSetRandomRLock \/ RoSetRandomLen \/ RoSetRandomScan
    \/ RoSetStringsLen \/ RoSetStringsValuesRLock \/ RoSetStrings
    \/ RoSetLock \/ RoSetIsNil \/ RoSet
    \/ RoDeleteLock \/ RoDelete
    \/ RoAddLock \/ RoAddIsNil \/ RoAdd
    \/ RoSetDeleteLock \/ RoSetDelete

SpecReads == InitReads /\ [][NextReads]_vars

\* C20: the methods that only read leave the entries and the version as
\* they are: while no call other than those and GetOrSet calls that find
\* their key has begun since Version last returned, the store has the
\* version and the map it had then, and a Version that returns then returns
\* the value the earlier one returned.
C20_ReadsArePure ==
    /\ aux.since.ver >= 0 =>
          TheVer = aux.since.ver /\ TheVals = aux.since.vals
    /\ Op \in {"Version", "Set.Version"} /\ aux.prev.ver >= 0 =>
          ret.res.ver = aux.prev.ver /\ TheVals = aux.prev.vals

\* Version has returned on a Map with entries, after an earlier Version and
\* with methods that only read and a GetOrSet that found its key between
\* the two.
C20_Witness ==
    /\ Op = "Version" /\ aux.prev.ver >= 0
    /\ aux.prev.reads /\ aux.prev.hit
    /\ Entries(vals) # EmptyMap

\* The same on a Set, which has no GetOrSet
SetVersionRepeated ==
    /\ Op = "Set.Version" /\ aux.prev.ver >= 0
    /\ aux.prev.reads
    /\ Entries(set.vals) # EmptyMap

\* No step of a method that only reads changes the version or the map of
\* either store.
ReadsChangeNothing ==
    [][pc[Reader] \notin {"idle", "GetOrSet_fn", "GetOrSet_set", "Set", "Set_write"}
         /\ pc'[Reader] # pc[Reader]
         => /\ ver' = ver /\ vals' = vals
            /\ set'.ver = set.ver /\ set'.vals = set.vals]_vars

====
